---- MODULE Spec2Model ----
(***************************************************************************)
(* MediaDurationRecursiveChecker: the per-file processing functions        *)
(* (calculate_file_hash, get_duration, process_single_file) and the run    *)
(* driven by FileSizeTreeChecker.start_processing / process_folder /       *)
(* cancel_processing, with the ThreadPoolExecutor the run uses when        *)
(* num_threads > 1.                                                        *)
(*                                                                         *)
(* A file on disk is a record of what the operating system and the three   *)
(* duration backends answer for it.  Paths are the positions 1..M of the   *)
(* shuffled work list: the absolute and the relative path of a file are    *)
(* both its position.  Python's None is the string "None".                 *)
(***************************************************************************)
EXTENDS Integers, Sequences, FiniteSets, TLC

\* ------------------------------------------------------------------ bounds
MaxFiles == 3
MaxThreads == 2
MaxEntries == 2
MaxMessages == 3

\* The minimum file size of the run, in KB: the value set in the spinbox
\* (small, so that the estimate's products stay within TLC's integers).
MinFileSizeKB == 1

\* ---------------------------------------------------------------- helpers

RECURSIVE SumOver(_, _)
SumOver(S, f) ==
    IF S = {} THEN 0
    ELSE LET x == CHOOSE y \in S : TRUE
         IN  f[x] + SumOver(S \ {x}, f)

\* --------------------------------------------------- the files on disk
\* What one backend answers for one file.
\*   pymediainfo: MediaInfo.parse raises, or whether a Video/Audio track
\*                carries a duration, and the first nonzero such duration in
\*                ms (0: every duration the tracks carry is 0)
\*   moviepy:     raises, or clip.duration in seconds
\*   ffprobe:     whether the binary at FFMPEG_BINARY_PATH can be run; its
\*                return code, whether format.duration is in the output, and it
PmiAnswer(raises, has_dur, ms) == [raises |-> raises, has_dur |-> has_dur, ms |-> ms]
MvpAnswer(raises, dur)         == [raises |-> raises, dur |-> dur]
FfpAnswer(found, rc, has_dur, dur) ==
    [found |-> found, rc |-> rc, has_dur |-> has_dur, dur |-> dur]

\* size: st_size; stat_ok: stat() on the path succeeds;
\* read_ok: the file can be opened and read; content: its bytes.
DiskFile(size, stat_ok, read_ok, content, pmi, mvp, ffp) ==
    [size |-> size, stat_ok |-> stat_ok, read_ok |-> read_ok, content |-> content,
     pmi |-> pmi, mvp |-> mvp, ffp |-> ffp]

\* below the minimum size; pymediainfo answers 1500 ms
SmallFile == DiskFile(512, TRUE, TRUE, "s",
                      PmiAnswer(FALSE, TRUE, 1500), MvpAnswer(FALSE, 1),
                      FfpAnswer(TRUE, 0, TRUE, 1))
\* pymediainfo finds no duration, moviepy raises, ffprobe answers 3 s
GoodFile  == DiskFile(2048, TRUE, TRUE, "g",
                      PmiAnswer(FALSE, FALSE, 0), MvpAnswer(TRUE, 0),
                      FfpAnswer(TRUE, 0, TRUE, 3))
\* exactly the minimum size; every backend fails
BadFile   == DiskFile(1024, TRUE, TRUE, "b",
                      PmiAnswer(TRUE, FALSE, 0), MvpAnswer(TRUE, 0),
                      FfpAnswer(TRUE, 1, FALSE, 0))

\* the bytes of GoodFile, but reading them for the hash fails
LockedFile == DiskFile(2048, TRUE, FALSE, "g",
                       PmiAnswer(FALSE, FALSE, 0), MvpAnswer(TRUE, 0),
                       FfpAnswer(TRUE, 0, TRUE, 3))

\* a link whose target is gone: its name matches, stat() raises on it
GoneFile  == DiskFile(0, FALSE, FALSE, "",
                      PmiAnswer(TRUE, FALSE, 0), MvpAnswer(TRUE, 0),
                      FfpAnswer(TRUE, 1, FALSE, 0))
\* a directory: it has a size, and can be neither read nor probed
DirFile   == DiskFile(4096, TRUE, FALSE, "",
                      PmiAnswer(TRUE, FALSE, 0), MvpAnswer(TRUE, 0),
                      FfpAnswer(TRUE, 1, FALSE, 0))

FileKinds == {SmallFile, GoodFile, BadFile, LockedFile, GoneFile}

\* ------------------------------------------------- the entries of the tree
\* Names and the extension field are sequences of characters.
\* What rglob("*") yields: the name of an entry and what the entry is.
Entry(name, kind) == [name |-> name, kind |-> kind]

EntryKinds == {"file", "directory", "broken_link"}

\* str.lower()
LowerChar(c) ==
    CASE c = "A" -> "a"
      [] c = "M" -> "m"
      [] c = "P" -> "p"
      [] c = "T" -> "t"
      [] c = "X" -> "x"
      [] OTHER   -> c

Lower(str) == [k \in DOMAIN str |-> LowerChar(str[k])]

\* str.rfind("."): the last position of a dot, 0 when there is none
\* (positions from 1; Python's are from 0, with -1 for none).
RFindDot(str) ==
    IF \A k \in DOMAIN str : str[k] # "." THEN 0
    ELSE CHOOSE k \in DOMAIN str :
             str[k] = "." /\ \A j \in (k + 1)..Len(str) : str[j] # "."

\* PurePath.suffix: the name from its last dot on, unless that dot is the
\* first or the last character of the name.
Suffix(name) ==
    LET i == RFindDot(name)
    IN  IF 1 < i /\ i < Len(name) THEN SubSeq(name, i, Len(name)) ELSE <<>>

\* str.lstrip("."): the leading dots are removed.
LStripDots(str) ==
    LET leading == {k \in DOMAIN str : \A j \in 1..k : str[j] = "."}
    IN  SubSeq(str, Cardinality(leading) + 1, Len(str))

\* str.strip(): the blanks at both ends are removed.
LStripBlanks(str) ==
    LET leading == {k \in DOMAIN str : \A j \in 1..k : str[j] = " "}
    IN  SubSeq(str, Cardinality(leading) + 1, Len(str))

RStripBlanks(str) ==
    LET trailing == {k \in DOMAIN str : \A j \in k..Len(str) : str[j] = " "}
    IN  SubSeq(str, 1, Len(str) - Cardinality(trailing))

Strip(str) == RStripBlanks(LStripBlanks(str))

\* str.split(","): the set of the items between the commas; the cuts are
\* the commas and the two ends of the string.
SplitCommas(str) ==
    LET cuts == {0, Len(str) + 1} \cup {k \in DOMAIN str : str[k] = ","}
    IN  {SubSeq(str, p[1] + 1, p[2] - 1) :
            p \in {q \in cuts \X cuts :
                      /\ q[1] < q[2]
                      /\ \A c \in cuts : ~(q[1] < c /\ c < q[2])}}

\* get_media_extensions with the extension field holding `text`.
get_media_extensions(text) ==
    LET extensions == Strip(text)
    IN  IF extensions = <<>> THEN {}
        ELSE {Lower(ext) : ext \in SplitCommas(extensions)}

\* The condition of the comprehension that builds media_files.
IsMediaFile(entry, text) ==
    /\ LStripDots(Lower(Suffix(entry.name))) \in get_media_extensions(text)
    /\ ~(entry.name # <<>> /\ Head(entry.name) = ".")

\* The positions of the entries that pass, in their order.
Matching(entries, text) ==
    SelectSeq([k \in DOMAIN entries |-> k],
              LAMBDA k : IsMediaFile(entries[k], text))

\* A name with a media extension, and the entry under which a file of the
\* work list was found.
MediaName == << "a", ".", "m", "p", "4" >>

EntryOf(f) == Entry(MediaName, IF f.stat_ok THEN "file" ELSE "broken_link")

\* The extension field of the run.
ExtensionsField == << "m", "p", "4" >>

\* ------------------------------------------------------ calculate_file_hash
\* SHA-256 of the content, as a hex digest; "raise" when the file cannot be read.
Sha256Hex(content) == "sha256:" \o content

calculate_file_hash(f) ==
    IF f.read_ok THEN Sha256Hex(f.content) ELSE "raise"

\* ------------------------------------------------------------ get_duration
\* Each backend's attempt: [ok, val].
TryPymediainfo(f) ==
    IF f.pmi.raises \/ ~f.pmi.has_dur \/ f.pmi.ms = 0
    THEN [ok |-> FALSE, val |-> 0]
    ELSE [ok |-> TRUE, val |-> f.pmi.ms \div 1000]

TryMoviepy(f) ==
    IF f.mvp.raises
    THEN [ok |-> FALSE, val |-> 0]
    ELSE [ok |-> TRUE, val |-> f.mvp.dur]

TryFfprobe(f) ==
    IF f.ffp.found /\ f.ffp.rc = 0 /\ f.ffp.has_dur
    THEN [ok |-> TRUE, val |-> f.ffp.dur]
    ELSE [ok |-> FALSE, val |-> 0]

\* get_duration trying every available backend and keeping the last success.
get_duration_LastWins(f, pmi_available, ffp_available) ==
    LET p == TryPymediainfo(f)
        m == TryMoviepy(f)
        q == TryFfprobe(f)
        all == (IF pmi_available THEN << "pymediainfo" >> ELSE <<>>)
               \o << "moviepy" >>
               \o (IF ffp_available THEN << "ffprobe" >> ELSE <<>>)
    IN  IF ffp_available /\ q.ok
        THEN [ok |-> TRUE, val |-> q.val, error_parts |-> <<>>, tried |-> all]
        ELSE IF m.ok
        THEN [ok |-> TRUE, val |-> m.val, error_parts |-> <<>>, tried |-> all]
        ELSE IF pmi_available /\ p.ok
        THEN [ok |-> TRUE, val |-> p.val, error_parts |-> <<>>, tried |-> all]
        ELSE [ok |-> FALSE, val |-> 0, error_parts |-> << "failed" >>, tried |-> all]

\* get_duration with the notices of the unavailable backends put first.
get_duration_NoticesFirst(f, pmi_available, ffp_available) ==
    LET p == TryPymediainfo(f)
        m == TryMoviepy(f)
        q == TryFfprobe(f)
        unavailable ==
            (IF pmi_available THEN <<>> ELSE << "(pymediainfo not available)" >>)
            \o (IF ffp_available THEN <<>> ELSE << "(ffprobe not available)" >>)
    IN  IF pmi_available /\ p.ok
        THEN [ok |-> TRUE, val |-> p.val, error_parts |-> <<>>,
              tried |-> << "pymediainfo" >>]
        ELSE LET t1 == IF pmi_available THEN << "pymediainfo" >> ELSE <<>>
                 e1 == IF pmi_available THEN << "pymediainfo failed" >> ELSE <<>>
             IN  IF m.ok
                 THEN [ok |-> TRUE, val |-> m.val, error_parts |-> <<>>,
                       tried |-> t1 \o << "moviepy" >>]
                 ELSE IF ffp_available /\ q.ok
                 THEN [ok |-> TRUE, val |-> q.val, error_parts |-> <<>>,
                       tried |-> t1 \o << "moviepy", "ffprobe" >>]
                 ELSE [ok |-> FALSE, val |-> 0,
                       error_parts |->
                           unavailable \o e1 \o << "moviepy failed" >>
                           \o (IF ffp_available
                               THEN << "ffprobe failed" >> ELSE <<>>),
                       tried |-> t1 \o << "moviepy" >>
                           \o (IF ffp_available
                               THEN << "ffprobe" >> ELSE <<>>)]

\* The result: ok with the duration, or the error message (its parts in order);
\* tried: the backends attempted, in order.
get_duration(f, pmi_available, ffp_available) ==
    LET p == TryPymediainfo(f)
        m == TryMoviepy(f)
        q == TryFfprobe(f)
        unavailable ==
            (IF pmi_available THEN <<>> ELSE << "(pymediainfo not available)" >>)
            \o (IF ffp_available THEN <<>> ELSE << "(ffprobe not available)" >>)
    IN  IF pmi_available /\ p.ok
        THEN [ok |-> TRUE, val |-> p.val, error_parts |-> <<>>,
              tried |-> << "pymediainfo" >>]
        ELSE LET t1 == IF pmi_available THEN << "pymediainfo" >> ELSE <<>>
                 e1 == IF pmi_available THEN << "pymediainfo failed" >> ELSE <<>>
             IN  IF m.ok
                 THEN [ok |-> TRUE, val |-> m.val, error_parts |-> <<>>,
                       tried |-> t1 \o << "moviepy" >>]
                 ELSE IF ffp_available /\ q.ok
                 THEN [ok |-> TRUE, val |-> q.val, error_parts |-> <<>>,
                       tried |-> t1 \o << "moviepy", "ffprobe" >>]
                 ELSE [ok |-> FALSE, val |-> 0,
                       error_parts |->
                           e1 \o << "moviepy failed" >>
                           \o (IF ffp_available
                               THEN << "ffprobe failed" >> ELSE <<>>)
                           \o unavailable,
                       tried |-> t1 \o << "moviepy" >>
                           \o (IF ffp_available
                               THEN << "ffprobe" >> ELSE <<>>)]

\* ----------------------------------------------------- process_single_file
\* path: the position of the file in the work list.
FileResult(path, duration, size, hash, error, skipped) ==
    [file_path |-> path, relative_path |-> path, duration |-> duration,
     size |-> size, hash |-> hash, error |-> error, skipped |-> skipped]

\* process_single_file_run with the hash computed before the size test.
process_single_file_run_HashFirst(path, f, min_size_bytes, pmi_available, ffp_available) ==
    IF ~f.stat_ok
    THEN [result  |-> FileResult(path, 0, 0, "None", "Failed to process file", FALSE),
          invoked |-> << "stat" >>]
    ELSE LET h == calculate_file_hash(f)
             file_hash == IF h = "raise" THEN "None" ELSE h
             d == get_duration(f, pmi_available, ffp_available)
         IN  IF f.size < min_size_bytes
             THEN [result  |-> FileResult(path, 0, f.size, file_hash, "None", TRUE),
                   invoked |-> << "stat", "calculate_file_hash" >>]
             ELSE [result  |-> IF d.ok
                               THEN FileResult(path, d.val, f.size, file_hash, "None", FALSE)
                               ELSE FileResult(path, 0, f.size, file_hash,
                                               "Error processing", FALSE),
                   invoked |-> << "stat", "calculate_file_hash" >> \o d.tried]

\* process_single_file_run whose outer handler returns a result without error.
process_single_file_run_SilentHandler(path, f, min_size_bytes, pmi_available, ffp_available) ==
    IF ~f.stat_ok
    THEN [result  |-> FileResult(path, 0, 0, "None", "None", FALSE),
          invoked |-> << "stat" >>]
    ELSE IF f.size < min_size_bytes
    THEN [result  |-> FileResult(path, 0, f.size, "None", "None", TRUE),
          invoked |-> << "stat" >>]
    ELSE LET h == calculate_file_hash(f)
             file_hash == IF h = "raise" THEN "None" ELSE h
             d == get_duration(f, pmi_available, ffp_available)
         IN  [result  |-> IF d.ok
                          THEN FileResult(path, d.val, f.size, file_hash, "None", FALSE)
                          ELSE FileResult(path, 0, f.size, file_hash,
                                          "Error processing", FALSE),
              invoked |-> << "stat", "calculate_file_hash" >> \o d.tried]

\* process_single_file_run without "duration = 0" after a failed extraction:
\* the duration is what get_duration left, here the number of its messages.
process_single_file_run_ErrorKeepsDuration(path, f, min_size_bytes, pmi_available, ffp_available) ==
    IF ~f.stat_ok
    THEN [result  |-> FileResult(path, 0, 0, "None", "Failed to process file", FALSE),
          invoked |-> << "stat" >>]
    ELSE IF f.size < min_size_bytes
    THEN [result  |-> FileResult(path, 0, f.size, "None", "None", TRUE),
          invoked |-> << "stat" >>]
    ELSE LET h == calculate_file_hash(f)
             file_hash == IF h = "raise" THEN "None" ELSE h
             d == get_duration(f, pmi_available, ffp_available)
         IN  [result  |-> IF d.ok
                          THEN FileResult(path, d.val, f.size, file_hash, "None", FALSE)
                          ELSE FileResult(path, Len(d.error_parts), f.size, file_hash,
                                          "Error processing", FALSE),
              invoked |-> << "stat", "calculate_file_hash" >> \o d.tried]

\* process_single_file_run with a hashing failure left to the outer handler.
process_single_file_run_HashAborts(path, f, min_size_bytes, pmi_available, ffp_available) ==
    IF ~f.stat_ok
    THEN [result  |-> FileResult(path, 0, 0, "None", "Failed to process file", FALSE),
          invoked |-> << "stat" >>]
    ELSE IF f.size < min_size_bytes
    THEN [result  |-> FileResult(path, 0, f.size, "None", "None", TRUE),
          invoked |-> << "stat" >>]
    ELSE LET h == calculate_file_hash(f)
             d == get_duration(f, pmi_available, ffp_available)
         IN  IF h = "raise"
             THEN [result  |-> FileResult(path, 0, 0, "None",
                                          "Failed to process file", FALSE),
                   invoked |-> << "stat", "calculate_file_hash" >>]
             ELSE [result  |-> IF d.ok
                               THEN FileResult(path, d.val, f.size, h, "None", FALSE)
                               ELSE FileResult(path, 0, f.size, h,
                                               "Error processing", FALSE),
                   invoked |-> << "stat", "calculate_file_hash" >> \o d.tried]

\* The call: its FileResult, and what it invoked on the way, in order.
process_single_file_run(path, f, min_size_bytes, pmi_available, ffp_available) ==
    IF ~f.stat_ok
    THEN [result  |-> FileResult(path, 0, 0, "None", "Failed to process file", FALSE),
          invoked |-> << "stat" >>]
    ELSE IF f.size < min_size_bytes
    THEN [result  |-> FileResult(path, 0, f.size, "None", "None", TRUE),
          invoked |-> << "stat" >>]
    ELSE LET h == calculate_file_hash(f)
             file_hash == IF h = "raise" THEN "None" ELSE h
             d == get_duration(f, pmi_available, ffp_available)
         IN  [result  |-> IF d.ok
                          THEN FileResult(path, d.val, f.size, file_hash, "None", FALSE)
                          ELSE FileResult(path, 0, f.size, file_hash,
                                          "Error processing", FALSE),
              invoked |-> << "stat", "calculate_file_hash" >> \o d.tried]

process_single_file(path, f, min_size_bytes, pmi_available, ffp_available) ==
    process_single_file_run(path, f, min_size_bytes, pmi_available, ffp_available).result

\* ------------------------------------------------------------------ state
VARIABLES
    \* the environment of the run
    disk,                       \* what the system answers for each entry of tree
    tree,                       \* the entries under the folder, in the shuffled order
    extensions_var,             \* the extension field
    num_threads, stop_on_error, min_file_size_kb,
    verbose,                    \* the verbose option
    cancel_futures_ok,          \* Executor.shutdown accepts cancel_futures (Python >= 3.9)
    pymediainfo_available, ffmpeg_binary_available,
    \* FileSizeTreeChecker's fields
    cancel_requested, processing_thread, executor,
    start_button, cancel_button, browse_button,
    dialog,                     \* the messagebox last shown
    ui_pc,                      \* the UI thread's position in cancel_processing
    \* the batched log: queue_message and process_message_queue
    message_queue, update_timer,
    after_pending,              \* the callbacks root.after has scheduled and not run
    progress_text,              \* the messages inserted into the text widget
    qm_pc,                      \* the processing thread's position in queue_message
    pmq_pc,                     \* the UI thread's position in process_message_queue
    queue_calls,                \* how often queue_message was called
    \* the ThreadPoolExecutor
    pool_shutdown, work_queue, fut,
    \* process_folder: its position, and its local variables
    pc, media_files, idx, cur, yielded, locals, report,
    \* the history of the run
    folded,                     \* the FileResults folded, in order
    calls,                      \* per path, how often process_single_file was invoked
    returned,                   \* the paths whose process_single_file has returned
    after_cancel,               \* since cancel_processing set the flag
    after_error,                \* since the first failing file finished
    after_stop                  \* since stop-on-error shut the pool down

env_vars  == << disk, tree, extensions_var, num_threads, stop_on_error, min_file_size_kb,
                verbose, cancel_futures_ok, pymediainfo_available,
                ffmpeg_binary_available >>
msg_vars  == << message_queue, update_timer, after_pending, progress_text, qm_pc,
                pmq_pc, queue_calls >>
ui_vars   == << cancel_requested, processing_thread, executor, start_button,
                cancel_button, browse_button, dialog, ui_pc >>
pool_vars == << pool_shutdown, work_queue, fut >>
proc_vars == << pc, media_files, idx, cur, yielded, locals, report >>
hist_vars == << folded, calls, returned, after_cancel, after_error, after_stop >>
vars == << env_vars, ui_vars, msg_vars, pool_vars, proc_vars, hist_vars >>

min_size_bytes == min_file_size_kb * 1024

\* The FileResult of the file at `path`.
ResultOf(path) ==
    process_single_file(path, disk[path], min_size_bytes,
                        pymediainfo_available, ffmpeg_binary_available)

Running == {i \in DOMAIN fut : fut[i] = "RUNNING"}

\* The paths whose process_single_file is running.
InFlight == {i \in DOMAIN calls : calls[i] > 0} \ returned

\* What has happened since a moment of the run: whether the moment has come,
\* and how many process_single_file calls have started and have returned
\* since.  For the cancellation request also completed_files at that moment.
NotYet == [seen |-> FALSE, started |-> 0, returned |-> 0]
Now    == [seen |-> TRUE, started |-> 0, returned |-> 0]

NotCancelled == [seen |-> FALSE, completed |-> 0, started |-> 0, returned |-> 0]

Started(h)  == IF h.seen THEN [h EXCEPT !.started = @ + 1] ELSE h
Returned(h) == IF h.seen THEN [h EXCEPT !.returned = @ + 1] ELSE h

InitLocals ==
    [total_size |-> 0, current_duration |-> 0, processed_size |-> 0,
     estimated_total |-> << 0, 1 >>, failed_size |-> 0,
     completed_files |-> 0, skipped_files |-> 0,
     failed_files |-> <<>>, file_hashes |-> <<>>, results |-> <<>>]

NoReport == [written |-> FALSE]

DiskStates == UNION {[1..n -> FileKinds] : n \in 0..MaxFiles}

Init ==
    /\ disk \in DiskStates
    /\ tree = [i \in DOMAIN disk |-> EntryOf(disk[i])]
    /\ extensions_var = ExtensionsField
    /\ num_threads \in 1..MaxThreads
    /\ stop_on_error \in BOOLEAN
    /\ min_file_size_kb = MinFileSizeKB
    /\ verbose = FALSE
    /\ cancel_futures_ok = TRUE
    /\ pymediainfo_available = TRUE
    /\ ffmpeg_binary_available = TRUE
    /\ cancel_requested = FALSE
    /\ processing_thread = FALSE
    /\ executor = "None"
    /\ start_button = "normal"
    /\ cancel_button = "disabled"
    /\ browse_button = "normal"
    /\ dialog = "none"
    /\ ui_pc = "idle"
    /\ message_queue = <<>>
    /\ update_timer = "None"
    /\ after_pending = 0
    /\ progress_text = <<>>
    /\ qm_pc = "idle"
    /\ pmq_pc = "idle"
    /\ queue_calls = 0
    /\ pool_shutdown = FALSE
    /\ work_queue = <<>>
    /\ fut = <<>>
    /\ pc = "idle"
    /\ media_files = <<>>
    /\ idx = 1
    /\ cur = 0
    /\ yielded = {}
    /\ locals = InitLocals
    /\ report = NoReport
    /\ folded = <<>>
    /\ calls = [i \in DOMAIN disk |-> 0]
    /\ returned = {}
    /\ after_cancel = NotCancelled
    /\ after_error = NotYet
    /\ after_stop = NotYet

\* SeqTrack with the path list of a hash replaced instead of extended.
SeqTrack_Overwrite(l, r) ==
    LET l1 == IF r.hash # "None"
              THEN [l EXCEPT !.file_hashes = (r.hash :> << r.relative_path >>) @@ @]
              ELSE l
        l2 == [l1 EXCEPT !.results =
                  (r.file_path :> [duration |-> r.duration, size |-> r.size,
                                   hash |-> r.hash]) @@ @]
    IN  IF l2.processed_size > 0
        THEN [l2 EXCEPT !.estimated_total =
                 << l2.total_size * l2.current_duration, l2.processed_size >>]
        ELSE l2

\* ------------------------------------------ process_folder: the loop bodies
\* The body of the sequential loop once process_single_file has returned r:
\* the local variables after it, and whether it left the loop by break.
SeqTrack(l, r) ==
    LET l1 == IF r.hash # "None"
              THEN [l EXCEPT !.file_hashes =
                       IF r.hash \in DOMAIN @
                       THEN [@ EXCEPT ![r.hash] = Append(@, r.relative_path)]
                       ELSE (r.hash :> << r.relative_path >>) @@ @]
              ELSE l
        l2 == [l1 EXCEPT !.results =
                  (r.file_path :> [duration |-> r.duration, size |-> r.size,
                                   hash |-> r.hash]) @@ @]
    IN  IF l2.processed_size > 0
        THEN [l2 EXCEPT !.estimated_total =
                 << l2.total_size * l2.current_duration, l2.processed_size >>]
        ELSE l2

\* SeqLoopBody with "current_duration = duration" for "current_duration += duration".
SeqLoopBody_Assign(l, r, stop) ==
    LET l1 == [l EXCEPT !.completed_files = @ + 1]
    IN  IF r.skipped
        THEN [locals |-> [l1 EXCEPT !.skipped_files = @ + 1], brk |-> FALSE]
        ELSE LET l2 == [l1 EXCEPT !.current_duration = r.duration,
                                  !.processed_size = @ + r.size]
             IN  IF r.error # "None"
                 THEN LET l3 == [l2 EXCEPT !.failed_files = Append(@, r.relative_path),
                                           !.failed_size = @ + r.size]
                      IN  IF stop
                          THEN [locals |-> l3, brk |-> TRUE]
                          ELSE [locals |-> SeqTrack(l3, r), brk |-> FALSE]
                 ELSE [locals |-> SeqTrack(l2, r), brk |-> FALSE]

\* SeqLoopBody without the break under stop_on_error.
SeqLoopBody_NoBreak(l, r, stop) ==
    LET l1 == [l EXCEPT !.completed_files = @ + 1]
    IN  IF r.skipped
        THEN [locals |-> [l1 EXCEPT !.skipped_files = @ + 1], brk |-> FALSE]
        ELSE LET l2 == [l1 EXCEPT !.current_duration = @ + r.duration,
                                  !.processed_size = @ + r.size]
             IN  IF r.error # "None"
                 THEN LET l3 == [l2 EXCEPT !.failed_files = Append(@, r.relative_path),
                                           !.failed_size = @ + r.size]
                      IN  [locals |-> SeqTrack(l3, r), brk |-> FALSE]
                 ELSE [locals |-> SeqTrack(l2, r), brk |-> FALSE]

\* SeqLoopBody without the continue after a skipped result.
SeqLoopBody_SkipFallsThrough(l, r, stop) ==
    LET l1 == [l EXCEPT !.completed_files = @ + 1,
                        !.skipped_files = IF r.skipped THEN @ + 1 ELSE @]
        l2 == [l1 EXCEPT !.current_duration = @ + r.duration,
                         !.processed_size = @ + r.size]
    IN  IF r.error # "None"
        THEN LET l3 == [l2 EXCEPT !.failed_files = Append(@, r.relative_path),
                                  !.failed_size = @ + r.size]
             IN  IF stop
                 THEN [locals |-> l3, brk |-> TRUE]
                 ELSE [locals |-> SeqTrack(l3, r), brk |-> FALSE]
        ELSE [locals |-> SeqTrack(l2, r), brk |-> FALSE]

SeqLoopBody(l, r, stop) ==
    LET l1 == [l EXCEPT !.completed_files = @ + 1]
    IN  IF r.skipped
        THEN [locals |-> [l1 EXCEPT !.skipped_files = @ + 1], brk |-> FALSE]
        ELSE LET l2 == [l1 EXCEPT !.current_duration = @ + r.duration,
                                  !.processed_size = @ + r.size]
             IN  IF r.error # "None"
                 THEN LET l3 == [l2 EXCEPT !.failed_files = Append(@, r.relative_path),
                                           !.failed_size = @ + r.size]
                      IN  IF stop
                          THEN [locals |-> l3, brk |-> TRUE]
                          ELSE [locals |-> SeqTrack(l3, r), brk |-> FALSE]
                 ELSE [locals |-> SeqTrack(l2, r), brk |-> FALSE]

\* PoolTrack with the path list of a hash replaced instead of extended.
PoolTrack_Overwrite(l, r) ==
    LET l1 == IF r.hash # "None"
              THEN [l EXCEPT !.file_hashes = (r.hash :> << r.relative_path >>) @@ @]
              ELSE l
        l2 == [l1 EXCEPT !.results =
                  (r.file_path :> [duration |-> r.duration, size |-> r.size,
                                   hash |-> r.hash]) @@ @]
    IN  IF l2.processed_size > 0
        THEN [l2 EXCEPT !.estimated_total =
                 << l2.total_size * l2.current_duration, l2.processed_size >>]
        ELSE l2

\* PoolTrack without the else: the path of a new hash is appended as well.
PoolTrack_MissingElse(l, r) ==
    LET l1 == IF r.hash # "None"
              THEN [l EXCEPT !.file_hashes =
                       IF r.hash \in DOMAIN @
                       THEN [@ EXCEPT ![r.hash] = Append(@, r.relative_path)]
                       ELSE (r.hash :> << r.relative_path, r.relative_path >>) @@ @]
              ELSE l
        l2 == [l1 EXCEPT !.results =
                  (r.file_path :> [duration |-> r.duration, size |-> r.size,
                                   hash |-> r.hash]) @@ @]
    IN  IF l2.processed_size > 0
        THEN [l2 EXCEPT !.estimated_total =
                 << l2.total_size * l2.current_duration, l2.processed_size >>]
        ELSE l2

\* The body of the as_completed loop once future.result() has returned r.
PoolTrack(l, r) ==
    LET l1 == IF r.hash # "None"
              THEN [l EXCEPT !.file_hashes =
                       IF r.hash \in DOMAIN @
                       THEN [@ EXCEPT ![r.hash] = Append(@, r.relative_path)]
                       ELSE (r.hash :> << r.relative_path >>) @@ @]
              ELSE l
        l2 == [l1 EXCEPT !.results =
                  (r.file_path :> [duration |-> r.duration, size |-> r.size,
                                   hash |-> r.hash]) @@ @]
    IN  IF l2.processed_size > 0
        THEN [l2 EXCEPT !.estimated_total =
                 << l2.total_size * l2.current_duration, l2.processed_size >>]
        ELSE l2

\* PoolLoopBody leaving the loop under stop_on_error before the failed file
\* is recorded.
PoolLoopBody_StopUnrecorded(l, r, stop) ==
    LET l1 == [l EXCEPT !.completed_files = @ + 1]
    IN  IF r.skipped
        THEN [locals |-> [l1 EXCEPT !.skipped_files = @ + 1], brk |-> FALSE]
        ELSE LET l2 == [l1 EXCEPT !.current_duration = @ + r.duration,
                                  !.processed_size = @ + r.size]
             IN  IF r.error # "None"
                 THEN LET l3 == [l2 EXCEPT !.failed_files = Append(@, r.relative_path),
                                           !.failed_size = @ + r.size]
                      IN  IF stop
                          THEN [locals |-> l2, brk |-> TRUE]
                          ELSE [locals |-> PoolTrack(l3, r), brk |-> FALSE]
                 ELSE [locals |-> PoolTrack(l2, r), brk |-> FALSE]

\* PoolLoopBody without the break under stop_on_error.
PoolLoopBody_NoBreak(l, r, stop) ==
    LET l1 == [l EXCEPT !.completed_files = @ + 1]
    IN  IF r.skipped
        THEN [locals |-> [l1 EXCEPT !.skipped_files = @ + 1], brk |-> FALSE]
        ELSE LET l2 == [l1 EXCEPT !.current_duration = @ + r.duration,
                                  !.processed_size = @ + r.size]
             IN  IF r.error # "None"
                 THEN LET l3 == [l2 EXCEPT !.failed_files = Append(@, r.relative_path),
                                           !.failed_size = @ + r.size]
                      IN  [locals |-> PoolTrack(l3, r), brk |-> FALSE]
                 ELSE [locals |-> PoolTrack(l2, r), brk |-> FALSE]

\* PoolLoopBody leaving the loop on any error, stop_on_error or not.
PoolLoopBody_AlwaysStop(l, r, stop) ==
    LET l1 == [l EXCEPT !.completed_files = @ + 1]
    IN  IF r.skipped
        THEN [locals |-> [l1 EXCEPT !.skipped_files = @ + 1], brk |-> FALSE]
        ELSE LET l2 == [l1 EXCEPT !.current_duration = @ + r.duration,
                                  !.processed_size = @ + r.size]
             IN  IF r.error # "None"
                 THEN LET l3 == [l2 EXCEPT !.failed_files = Append(@, r.relative_path),
                                           !.failed_size = @ + r.size]
                      IN  [locals |-> l3, brk |-> TRUE]
                 ELSE [locals |-> PoolTrack(l2, r), brk |-> FALSE]

\* PoolLoopBody adding a skipped file's size to processed_size.
PoolLoopBody_CountSkipped(l, r, stop) ==
    LET l1 == [l EXCEPT !.completed_files = @ + 1]
    IN  IF r.skipped
        THEN [locals |-> [l1 EXCEPT !.skipped_files = @ + 1,
                                    !.processed_size = @ + r.size],
              brk |-> FALSE]
        ELSE LET l2 == [l1 EXCEPT !.current_duration = @ + r.duration,
                                  !.processed_size = @ + r.size]
             IN  IF r.error # "None"
                 THEN LET l3 == [l2 EXCEPT !.failed_files = Append(@, r.relative_path),
                                           !.failed_size = @ + r.size]
                      IN  IF stop
                          THEN [locals |-> l3, brk |-> TRUE]
                          ELSE [locals |-> PoolTrack(l3, r), brk |-> FALSE]
                 ELSE [locals |-> PoolTrack(l2, r), brk |-> FALSE]

PoolLoopBody(l, r, stop) ==
    LET l1 == [l EXCEPT !.completed_files = @ + 1]
    IN  IF r.skipped
        THEN [locals |-> [l1 EXCEPT !.skipped_files = @ + 1], brk |-> FALSE]
        ELSE LET l2 == [l1 EXCEPT !.current_duration = @ + r.duration,
                                  !.processed_size = @ + r.size]
             IN  IF r.error # "None"
                 THEN LET l3 == [l2 EXCEPT !.failed_files = Append(@, r.relative_path),
                                           !.failed_size = @ + r.size]
                      IN  IF stop
                          THEN [locals |-> l3, brk |-> TRUE]
                          ELSE [locals |-> PoolTrack(l3, r), brk |-> FALSE]
                 ELSE [locals |-> PoolTrack(l2, r), brk |-> FALSE]

\* ------------------------------------------------ the ThreadPoolExecutor
\* Future.cancel() on every future: a pending one becomes cancelled, a
\* running or finished one is left as it is.
CancelAll(fs) ==
    [i \in DOMAIN fs |-> IF fs[i] = "PENDING" THEN "CANCELLED" ELSE fs[i]]

\* shutdown(wait=False, cancel_futures=True): the work queue is drained and
\* its futures cancelled.  Without cancel_futures (the TypeError fallback)
\* the queue is left to the workers.
DrainQueue(fs, q) ==
    [i \in DOMAIN fs |-> IF (\E k \in DOMAIN q : q[k] = i) /\ fs[i] = "PENDING"
                         THEN "CANCELLED" ELSE fs[i]]

ShutdownFutures(fs, q) == IF cancel_futures_ok THEN DrainQueue(fs, q) ELSE fs
ShutdownQueue(q)       == IF cancel_futures_ok THEN <<>> ELSE q

\* The loop's reaction to a cancellation request or to an error under
\* stop_on_error: every future is cancelled and the executor shut down.
PoolStop_Nothing(fs, q) == [fut |-> fs, work_queue |-> q]
PoolStop(fs, q) ==
    [fut |-> ShutdownFutures(CancelAll(fs), q), work_queue |-> ShutdownQueue(q)]

\* The futures as_completed has not yielded yet and can yield now.
Completed_YieldAgain == {i \in DOMAIN fut :
                           fut[i] \in {"FINISHED", "CANCELLED_AND_NOTIFIED"}}
Completed == {i \in DOMAIN fut \ yielded :
                 fut[i] \in {"FINISHED", "CANCELLED_AND_NOTIFIED"}}

\* process_single_file has returned for `path`.
NoteReturn(path) ==
    /\ returned' = returned \cup {path}
    /\ after_cancel' = Returned(after_cancel)
    /\ after_stop' = Returned(after_stop)
    /\ after_error' = IF ~after_error.seen /\ ResultOf(path).error # "None"
                       THEN Now ELSE Returned(after_error)

\* process_single_file is invoked on `path`.
NoteCall(path) ==
    /\ calls' = [calls EXCEPT ![path] = @ + 1]
    /\ after_cancel' = Started(after_cancel)
    /\ after_stop' = Started(after_stop)
    /\ UNCHANGED after_error

\* ---------------------------------------------------------- the batched log
\* The messages: the error of a file, the progress line at a number of
\* completed files, the exception of the loop body for a file.
Message(kind, n) == [kind |-> kind, n |-> n]

\* "completed_files % 10 == 0"
ProgressEvery == 10

\* What the loop body passes to queue_message for the result r, l being the
\* local variables after the body: the error of a failed file in verbose
\* mode, and the progress line where the body reaches it.
LoopMessages(l, r, stop) ==
    IF r.skipped THEN <<>>
    ELSE (IF r.error # "None" /\ verbose
          THEN << Message("error", r.file_path) >> ELSE <<>>)
         \o (IF /\ ~(r.error # "None" /\ stop)
                /\ l.processed_size > 0
                /\ l.completed_files % ProgressEvery = 0
             THEN << Message("progress", l.completed_files) >> ELSE <<>>)

\* queue_message called for each of msgs, one after the other, with the UI
\* thread at rest: the messages are appended, and the first call that finds
\* no timer schedules process_message_queue.
QueueMessages(msgs) ==
    /\ message_queue' = message_queue \o msgs
    /\ queue_calls' = queue_calls + Len(msgs)
    /\ IF msgs # <<>> /\ update_timer = "None"
       THEN /\ update_timer' = "timer"
            /\ after_pending' = after_pending + 1
       ELSE UNCHANGED << update_timer, after_pending >>
    /\ UNCHANGED << progress_text, qm_pc, pmq_pc >>

\* ------------------------------------------------------- start_processing
\* What the folder field can hold: nothing, a path that does not exist, the
\* path of a file, the path of a directory.
FolderStates == {"", "missing", "file", "directory"}

\* The UI thread runs one handler at a time.
UIThreadFree == ui_pc = "idle" /\ pmq_pc = "idle"

\* The thread that start_processing creates: process_folder starts with
\* fresh local variables, and the history of the run starts anew.  What is
\* left of the previous run's executor is garbage, but for self.executor.
NewThread ==
    /\ processing_thread' = TRUE
    /\ pc' = "scan"
    /\ media_files' = <<>>
    /\ idx' = 1
    /\ cur' = 0
    /\ yielded' = {}
    /\ locals' = InitLocals
    /\ report' = NoReport
    /\ pool_shutdown' = FALSE
    /\ work_queue' = <<>>
    /\ fut' = <<>>
    /\ folded' = <<>>
    /\ calls' = [i \in DOMAIN disk |-> 0]
    /\ returned' = {}
    /\ after_cancel' = NotCancelled
    /\ after_error' = NotYet
    /\ after_stop' = NotYet

\* start_processing resetting the cancel flag before it looks at the folder.
start_processing_ResetsFirst ==
    /\ UIThreadFree
    /\ start_button = "normal"
    /\ \E folder \in FolderStates :
          IF folder # "directory"
          THEN /\ dialog' = "Error"
               /\ cancel_requested' = FALSE
               /\ UNCHANGED << processing_thread, executor, start_button,
                               cancel_button, browse_button, ui_pc, pool_vars,
                               proc_vars, hist_vars >>
          ELSE /\ pc \in {"idle", "done"}
               /\ cancel_requested' = FALSE
               /\ browse_button' = "disabled"
               /\ start_button' = "disabled"
               /\ cancel_button' = "normal"
               /\ dialog' = "none"
               /\ NewThread
               /\ UNCHANGED << executor, ui_pc >>
    /\ UNCHANGED << env_vars, msg_vars >>

\* start_processing without the reset of the cancel flag.
start_processing_KeepsFlag ==
    /\ UIThreadFree
    /\ start_button = "normal"
    /\ \E folder \in FolderStates :
          IF folder # "directory"
          THEN /\ dialog' = "Error"
               /\ UNCHANGED << cancel_requested, processing_thread, executor,
                               start_button, cancel_button, browse_button, ui_pc,
                               pool_vars, proc_vars, hist_vars >>
          ELSE /\ pc \in {"idle", "done"}
               /\ browse_button' = "disabled"
               /\ start_button' = "disabled"
               /\ cancel_button' = "normal"
               /\ dialog' = "none"
               /\ NewThread
               /\ UNCHANGED << cancel_requested, executor, ui_pc >>
    /\ UNCHANGED << env_vars, msg_vars >>

\* The start button's handler; the button is enabled before a run and after
\* it.  A folder that is not a directory is rejected with a messagebox;
\* otherwise the cancel flag is reset, the buttons are set for a run and the
\* processing thread is started.
start_processing ==
    /\ UIThreadFree
    /\ start_button = "normal"
    /\ \E folder \in FolderStates :
          IF folder # "directory"
          THEN /\ dialog' = "Error"
               /\ UNCHANGED << cancel_requested, processing_thread, executor,
                               start_button, cancel_button, browse_button, ui_pc,
                               pool_vars, proc_vars, hist_vars >>
          ELSE /\ pc \in {"idle", "done"}
               /\ cancel_requested' = FALSE
               /\ browse_button' = "disabled"
               /\ start_button' = "disabled"
               /\ cancel_button' = "normal"
               /\ dialog' = "none"
               /\ NewThread
               /\ UNCHANGED << executor, ui_pc >>
    /\ UNCHANGED << env_vars, msg_vars >>

\* --------------------------------------------------------- process_folder
\* sum(f.stat().st_size for f in media_files), from the k-th file on
RECURSIVE SizeFrom(_, _)
SizeFrom(files, k) ==
    IF k > Len(files) THEN 0
    ELSE disk[files[k]].size + SizeFrom(files, k + 1)

\* The scan and the initialisation of the local variables: the entries that
\* pass the test make the work list (the shuffle is the order of tree), and
\* their sizes are summed.  A stat() that raises in the sum leaves
\* process_folder by its handler.
Scan ==
    /\ pc = "scan"
    /\ LET files == Matching(tree, extensions_var)
       IN  IF \E k \in DOMAIN files : ~disk[files[k]].stat_ok
           THEN /\ pc' = "except"
                /\ UNCHANGED << media_files, idx, locals >>
           ELSE /\ media_files' = files
                /\ locals' = [InitLocals EXCEPT !.total_size = SizeFrom(files, 1)]
                /\ idx' = 1
                /\ pc' = IF num_threads = 1 THEN "seq_loop" ELSE "pool_enter"
    /\ UNCHANGED << env_vars, msg_vars, ui_vars, pool_vars, cur, yielded, report, hist_vars >>

\* num_threads == 1: the for loop ends when the list is exhausted, or by the
\* break of the cancellation check at the head of its body.
SeqLoopEnds == idx > Len(media_files) \/ cancel_requested

SeqNext ==
    /\ pc = "seq_loop"
    /\ IF SeqLoopEnds
       THEN /\ pc' = "summary"
            /\ UNCHANGED << cur, calls, after_cancel, after_stop >>
       ELSE /\ pc' = "seq_call"
            /\ cur' = media_files[idx]
            /\ NoteCall(media_files[idx])
    /\ UNCHANGED << env_vars, msg_vars, ui_vars, pool_vars, media_files, idx, yielded, locals,
                    report, folded, returned, after_error >>

\* SeqBody going back to a file whose result has an error, once.
SeqBody_RetryFailed ==
    /\ pc = "seq_call"
    /\ LET r == ResultOf(cur)
           b == SeqLoopBody(locals, r, stop_on_error)
       IN  /\ locals' = b.locals
           /\ folded' = Append(folded, r)
           /\ pc' = IF b.brk THEN "summary" ELSE "seq_loop"
           /\ idx' = IF r.error # "None" /\ calls[cur] < 2 THEN idx ELSE idx + 1
           /\ QueueMessages(LoopMessages(b.locals, r, stop_on_error))
    /\ NoteReturn(cur)
    /\ UNCHANGED << env_vars, ui_vars, pool_vars, media_files, cur, yielded, report,
                    calls >>

\* process_single_file returns and the rest of the loop body runs.
SeqBody ==
    /\ pc = "seq_call"
    /\ LET r == ResultOf(cur)
           b == SeqLoopBody(locals, r, stop_on_error)
       IN  /\ locals' = b.locals
           /\ folded' = Append(folded, r)
           /\ pc' = IF b.brk THEN "summary" ELSE "seq_loop"
           /\ QueueMessages(LoopMessages(b.locals, r, stop_on_error))
    /\ idx' = idx + 1
    /\ NoteReturn(cur)
    /\ UNCHANGED << env_vars, ui_vars, pool_vars, media_files, cur, yielded, report,
                    calls >>

\* num_threads > 1: the executor is created and stored in self.executor.
PoolEnter ==
    /\ pc = "pool_enter"
    /\ executor' = "set"
    /\ pool_shutdown' = FALSE
    /\ pc' = "pool_submit"
    /\ UNCHANGED << env_vars, msg_vars, cancel_requested, processing_thread, start_button,
                    cancel_button, browse_button, dialog, ui_pc, work_queue, fut,
                    media_files, idx, cur, yielded, locals, report, hist_vars >>

\* Every file is submitted.  submit raises RuntimeError on an executor that
\* was shut down, which leaves process_folder by its handler.
PoolSubmit ==
    /\ pc = "pool_submit"
    /\ IF pool_shutdown
       THEN /\ pc' = "except"
            /\ UNCHANGED << work_queue, fut >>
       ELSE /\ pc' = "pool_loop"
            /\ work_queue' = media_files
            /\ fut' = [i \in DOMAIN media_files |-> "PENDING"]
    /\ UNCHANGED << env_vars, msg_vars, ui_vars, pool_shutdown, media_files, idx, cur, yielded,
                    locals, report, hist_vars >>

\* A free worker takes the next work item: it runs process_single_file on a
\* pending future and drops a cancelled one.
WorkerTake ==
    /\ work_queue # <<>>
    /\ Cardinality(Running) < num_threads
    /\ LET i == Head(work_queue)
       IN  /\ work_queue' = Tail(work_queue)
           /\ IF fut[i] = "PENDING"
              THEN /\ fut' = [fut EXCEPT ![i] = "RUNNING"]
                   /\ NoteCall(i)
              ELSE /\ fut' = [fut EXCEPT ![i] = "CANCELLED_AND_NOTIFIED"]
                   /\ UNCHANGED << calls, after_cancel, after_error, after_stop >>
    /\ UNCHANGED << env_vars, msg_vars, ui_vars, pool_shutdown, proc_vars, folded, returned >>

\* WorkerDone with the worker counting its file itself.
WorkerDone_CountsItself ==
    \E i \in Running :
        /\ fut' = [fut EXCEPT ![i] = "FINISHED"]
        /\ NoteReturn(i)
        /\ locals' = [locals EXCEPT !.completed_files = @ + 1]
        /\ UNCHANGED << env_vars, msg_vars, ui_vars, pool_shutdown, work_queue, pc, media_files,
                        idx, cur, yielded, report, folded, calls >>

\* A worker's process_single_file returns: the future is finished.
WorkerDone ==
    \E i \in Running :
        /\ fut' = [fut EXCEPT ![i] = "FINISHED"]
        /\ NoteReturn(i)
        /\ UNCHANGED << env_vars, msg_vars, ui_vars, pool_shutdown, work_queue, proc_vars,
                        folded, calls >>

\* as_completed yields the next completed future, or is exhausted; the loop
\* body starts with the cancellation check.
PoolNext ==
    /\ pc = "pool_loop"
    /\ IF yielded = DOMAIN fut
       THEN /\ executor' = "None"
            /\ pc' = "pool_join"
            /\ UNCHANGED << pool_shutdown, work_queue, fut, cur, yielded >>
       ELSE \E i \in Completed :
              IF cancel_requested
              THEN /\ fut' = PoolStop(fut, work_queue).fut
                   /\ work_queue' = PoolStop(fut, work_queue).work_queue
                   /\ pool_shutdown' = TRUE
                   /\ executor' = "None"
                   /\ pc' = "pool_join"
                   /\ UNCHANGED << cur, yielded >>
              ELSE /\ cur' = i
                   /\ yielded' = yielded \cup {i}
                   /\ pc' = "pool_body"
                   /\ UNCHANGED << pool_shutdown, work_queue, fut, executor >>
    /\ UNCHANGED << env_vars, msg_vars, cancel_requested, processing_thread, start_button,
                    cancel_button, browse_button, dialog, ui_pc, media_files, idx,
                    locals, report, hist_vars >>

\* future.result() and the rest of the loop body.  A cancelled future makes
\* result() raise, which the loop's handler turns into a message.
PoolBody ==
    /\ pc = "pool_body"
    /\ IF fut[cur] # "FINISHED"
       THEN /\ pc' = "pool_loop"
            /\ QueueMessages(<< Message("exception", cur) >>)
            /\ UNCHANGED << pool_vars, executor, locals, folded, after_stop >>
       ELSE LET r == ResultOf(cur)
                b == PoolLoopBody(locals, r, stop_on_error)
            IN  /\ locals' = b.locals
                /\ folded' = Append(folded, r)
                /\ QueueMessages(LoopMessages(b.locals, r, stop_on_error))
                /\ IF b.brk
                   THEN /\ fut' = PoolStop(fut, work_queue).fut
                        /\ work_queue' = PoolStop(fut, work_queue).work_queue
                        /\ pool_shutdown' = TRUE
                        /\ after_stop' = Now
                        /\ executor' = "None"
                        /\ pc' = "pool_join"
                   ELSE /\ pc' = "pool_loop"
                        /\ UNCHANGED << pool_vars, executor, after_stop >>
    /\ UNCHANGED << env_vars, cancel_requested, processing_thread, start_button,
                    cancel_button, browse_button, dialog, ui_pc, media_files, idx,
                    cur, yielded, report, calls, returned, after_cancel, after_error >>

\* PoolJoin with shutdown(wait=False) on leaving the with block.
PoolJoin_NoWait ==
    /\ pc = "pool_join"
    /\ pool_shutdown' = TRUE
    /\ pc' = "summary"
    /\ UNCHANGED << env_vars, msg_vars, ui_vars, work_queue, fut, media_files, idx, cur,
                    yielded, locals, report, hist_vars >>

\* Leaving the with block: shutdown(wait=True) returns once every worker
\* has emptied the queue and finished its file.
PoolJoin ==
    /\ pc = "pool_join"
    /\ work_queue = <<>>
    /\ Running = {}
    /\ pool_shutdown' = TRUE
    /\ pc' = "summary"
    /\ UNCHANGED << env_vars, msg_vars, ui_vars, work_queue, fut, media_files, idx, cur,
                    yielded, locals, report, hist_vars >>

\* The duplicate groups: the path lists of the hashes with more than one path.
\* DuplicateGroups keeping the hashes with a single path.
DuplicateGroups_KeepSingles(file_hashes) ==
    {file_hashes[h] : h \in DOMAIN file_hashes}

DuplicateGroups(file_hashes) ==
    {file_hashes[h] : h \in {k \in DOMAIN file_hashes : Len(file_hashes[k]) > 1}}

TotalDuplicates(groups) ==
    SumOver(groups, [g \in groups |-> Len(g) - 1])

\* The end of process_folder's try block: the closing log lines and the
\* report (save_json is on).
Summarize ==
    /\ pc = "summary"
    /\ LET groups == DuplicateGroups(locals.file_hashes)
       IN  report' =
             [written |-> TRUE,
              headline |-> IF ~cancel_requested THEN "Processing completed"
                           ELSE "Duration of all files seen so far",
              estimate_logged |-> cancel_requested /\ locals.estimated_total[1] > 0,
              extrapolated_logged |->
                  /\ locals.failed_files # <<>>
                  /\ locals.processed_size > 0
                  /\ locals.processed_size < locals.total_size,
              total_files |-> Len(media_files),
              processed_files |-> Len(media_files) - locals.skipped_files,
              skipped_files |-> locals.skipped_files,
              total_duration_seconds |-> locals.current_duration,
              failed_files_count |-> Len(locals.failed_files),
              duplicate_groups_count |-> Cardinality(groups),
              total_duplicate_files |-> TotalDuplicates(groups),
              files |-> locals.results,
              duplicate_groups |-> groups,
              failed_files |-> locals.failed_files]
    /\ pc' = "dialog"
    /\ UNCHANGED << env_vars, msg_vars, ui_vars, pool_vars, media_files, idx, cur, yielded,
                    locals, hist_vars >>

\* The closing messagebox, then the finally block.
ShowResult ==
    /\ pc = "dialog"
    /\ dialog' = IF cancel_requested THEN "Processing Cancelled"
                  ELSE "Processing Complete"
    /\ browse_button' = "normal"
    /\ start_button' = "normal"
    /\ cancel_button' = "disabled"
    /\ processing_thread' = FALSE
    /\ pc' = "done"
    /\ UNCHANGED << env_vars, msg_vars, cancel_requested, executor, ui_pc, pool_vars,
                    media_files, idx, cur, yielded, locals, report, hist_vars >>

\* The handler of process_folder's try block, then the finally block.
Except ==
    /\ pc = "except"
    /\ dialog' = "An error occurred"
    /\ browse_button' = "normal"
    /\ start_button' = "normal"
    /\ cancel_button' = "disabled"
    /\ processing_thread' = FALSE
    /\ pc' = "done"
    /\ UNCHANGED << env_vars, msg_vars, cancel_requested, executor, ui_pc, pool_vars,
                    media_files, idx, cur, yielded, locals, report, hist_vars >>

\* ------------------------------------------------------ cancel_processing
\* The cancel button's handler, on the UI thread: the flag is set, the
\* message logged and the button disabled ...
CancelSetFlag ==
    /\ UIThreadFree
    /\ cancel_button = "normal"
    /\ processing_thread
    /\ cancel_requested' = TRUE
    /\ cancel_button' = "disabled"
    /\ ui_pc' = "shutdown"
    /\ after_cancel' = [seen |-> TRUE, completed |-> locals.completed_files,
                        started |-> 0, returned |-> 0]
    /\ UNCHANGED << env_vars, msg_vars, processing_thread, executor, start_button,
                    browse_button, dialog, pool_vars, proc_vars, folded, calls,
                    returned, after_error, after_stop >>

\* ... and then the executor, if self.executor holds one, is shut down.
CancelShutdown ==
    /\ ui_pc = "shutdown"
    /\ ui_pc' = "idle"
    /\ IF executor = "set"
       THEN /\ pool_shutdown' = TRUE
            /\ fut' = ShutdownFutures(fut, work_queue)
            /\ work_queue' = ShutdownQueue(work_queue)
       ELSE UNCHANGED pool_vars
    /\ UNCHANGED << env_vars, msg_vars, cancel_requested, processing_thread, executor,
                    start_button, cancel_button, browse_button, dialog, proc_vars,
                    hist_vars >>

\* ---------------------------------------------------------- specification
Next ==
    \/ start_processing
    \/ Scan
    \/ SeqNext
    \/ SeqBody
    \/ PoolEnter
    \/ PoolSubmit
    \/ WorkerTake
    \/ WorkerDone
    \/ PoolNext
    \/ PoolBody
    \/ PoolJoin
    \/ Summarize
    \/ ShowResult
    \/ Except
    \/ CancelSetFlag
    \/ CancelShutdown

Spec == Init /\ [][Next]_vars

\* The processing thread and the pool's workers keep running, a call of
\* process_single_file returns, and cancel_processing, once entered, runs
\* to its end.  Nothing makes the user press a button.
Fairness ==
    /\ WF_vars(Scan) /\ WF_vars(SeqNext) /\ WF_vars(SeqBody)
    /\ WF_vars(PoolEnter) /\ WF_vars(PoolSubmit)
    /\ WF_vars(WorkerTake) /\ WF_vars(WorkerDone)
    /\ WF_vars(PoolNext) /\ WF_vars(PoolBody) /\ WF_vars(PoolJoin)
    /\ WF_vars(Summarize) /\ WF_vars(ShowResult) /\ WF_vars(Except)
    /\ WF_vars(CancelShutdown)

FairSpec == Spec /\ Fairness

\* ------------------------------------------- the per-file functions alone
\* What a file can be and what the backends can answer for it.
PmiAnswers == {PmiAnswer(TRUE, FALSE, 0), PmiAnswer(FALSE, FALSE, 0),
               PmiAnswer(FALSE, TRUE, 0), PmiAnswer(FALSE, TRUE, 999),
               PmiAnswer(FALSE, TRUE, 1500)}
MvpAnswers == {MvpAnswer(TRUE, 0), MvpAnswer(FALSE, 0), MvpAnswer(FALSE, 2)}
FfpAnswers == {FfpAnswer(FALSE, 0, FALSE, 0), FfpAnswer(TRUE, 1, FALSE, 0),
               FfpAnswer(TRUE, 0, FALSE, 0), FfpAnswer(TRUE, 0, TRUE, 0),
               FfpAnswer(TRUE, 0, TRUE, 125)}

AnyFile ==
    {DiskFile(size, stat_ok, read_ok, content, pmi, mvp, ffp) :
        size \in {0, 1023, 1024}, stat_ok \in BOOLEAN, read_ok \in BOOLEAN,
        content \in {"a", "b"}, pmi \in PmiAnswers, mvp \in MvpAnswers,
        ffp \in FfpAnswers}

\* One file, any minimum size and any availability of the optional backends.
FileInit ==
    /\ disk \in [1..1 -> AnyFile]
    /\ tree = [i \in DOMAIN disk |-> EntryOf(disk[i])]
    /\ extensions_var = ExtensionsField
    /\ num_threads = 1
    /\ stop_on_error = FALSE
    /\ min_file_size_kb \in {0, MinFileSizeKB}
    /\ verbose = FALSE
    /\ cancel_futures_ok = TRUE
    /\ pymediainfo_available \in BOOLEAN
    /\ ffmpeg_binary_available \in BOOLEAN
    /\ cancel_requested = FALSE
    /\ processing_thread = FALSE
    /\ executor = "None"
    /\ start_button = "normal"
    /\ cancel_button = "disabled"
    /\ browse_button = "normal"
    /\ dialog = "none"
    /\ ui_pc = "idle"
    /\ message_queue = <<>>
    /\ update_timer = "None"
    /\ after_pending = 0
    /\ progress_text = <<>>
    /\ qm_pc = "idle"
    /\ pmq_pc = "idle"
    /\ queue_calls = 0
    /\ pool_shutdown = FALSE
    /\ work_queue = <<>>
    /\ fut = <<>>
    /\ pc = "idle"
    /\ media_files = <<>>
    /\ idx = 1
    /\ cur = 0
    /\ yielded = {}
    /\ locals = InitLocals
    /\ report = NoReport
    /\ folded = <<>>
    /\ calls = [i \in DOMAIN disk |-> 0]
    /\ returned = {}
    /\ after_cancel = NotCancelled
    /\ after_error = NotYet
    /\ after_stop = NotYet

\* process_single_file is called on the file and returns.
CallProcessSingleFile ==
    /\ pc = "idle"
    /\ cur' = 1
    /\ NoteCall(1)
    /\ returned' = {1}
    /\ folded' = << ResultOf(1) >>
    /\ pc' = "returned"
    /\ UNCHANGED << env_vars, msg_vars, ui_vars, pool_vars, media_files, idx, yielded, locals,
                    report >>

FileSpec == FileInit /\ [][CallProcessSingleFile]_vars

\* ------------------------------------------------------------ the scan alone
\* The names an entry can have: a.mp4, a.MP4, .a.mp4, a.txt, a, .mp4
EntryNames ==
    { << "a", ".", "m", "p", "4" >>, << "a", ".", "M", "P", "4" >>,
      << ".", "a", ".", "m", "p", "4" >>, << "a", ".", "t", "x", "t" >>,
      << "a" >>, << ".", "m", "p", "4" >> }

\* What the extension field can hold: "mp4", "", "txt,mp4", "MP4", " mp4 "
\* and "txt, mp4"
ExtensionFields ==
    { << "m", "p", "4" >>, <<>>, << "t", "x", "t", ",", "m", "p", "4" >>,
      << "M", "P", "4" >>, << " ", "m", "p", "4", " " >>,
      << "t", "x", "t", ",", " ", "m", "p", "4" >> }

TreeStates ==
    UNION {[1..n -> {Entry(name, kind) : name \in EntryNames, kind \in EntryKinds}] :
               n \in 0..MaxEntries}

\* What the system answers for an entry of each kind.
AnswersFor(entry) ==
    CASE entry.kind = "file"        -> GoodFile
      [] entry.kind = "directory"   -> DirFile
      [] entry.kind = "broken_link" -> GoneFile

\* process_folder has been started on a folder with any entries, under any
\* extension field.
ScanInit ==
    /\ tree \in TreeStates
    /\ disk = [i \in DOMAIN tree |-> AnswersFor(tree[i])]
    /\ extensions_var \in ExtensionFields
    /\ num_threads \in 1..MaxThreads
    /\ stop_on_error = FALSE
    /\ min_file_size_kb = MinFileSizeKB
    /\ verbose = FALSE
    /\ cancel_futures_ok = TRUE
    /\ pymediainfo_available = TRUE
    /\ ffmpeg_binary_available = TRUE
    /\ cancel_requested = FALSE
    /\ processing_thread = TRUE
    /\ executor = "None"
    /\ start_button = "disabled"
    /\ cancel_button = "normal"
    /\ browse_button = "disabled"
    /\ dialog = "none"
    /\ ui_pc = "idle"
    /\ message_queue = <<>>
    /\ update_timer = "None"
    /\ after_pending = 0
    /\ progress_text = <<>>
    /\ qm_pc = "idle"
    /\ pmq_pc = "idle"
    /\ queue_calls = 0
    /\ pool_shutdown = FALSE
    /\ work_queue = <<>>
    /\ fut = <<>>
    /\ pc = "scan"
    /\ media_files = <<>>
    /\ idx = 1
    /\ cur = 0
    /\ yielded = {}
    /\ locals = InitLocals
    /\ report = NoReport
    /\ folded = <<>>
    /\ calls = [i \in DOMAIN disk |-> 0]
    /\ returned = {}
    /\ after_cancel = NotCancelled
    /\ after_error = NotYet
    /\ after_stop = NotYet

ScanSpec == ScanInit /\ [][Scan]_vars

\* ------------------------------------------------- the sequential loop alone
\* A folder of ProgressEvery files, each too small, good or failing: files
\* of one kind, and then three files of any kind.
ProgressDisks ==
    {d \in [1..ProgressEvery -> {SmallFile, GoodFile, BadFile}] :
        \A i \in 1..(ProgressEvery - 3) : d[i] = d[1]}

\* process_folder has been started with one thread on such a folder.
ProgressInit ==
    /\ disk \in ProgressDisks
    /\ tree = [i \in DOMAIN disk |-> EntryOf(disk[i])]
    /\ extensions_var = ExtensionsField
    /\ num_threads = 1
    /\ stop_on_error \in BOOLEAN
    /\ min_file_size_kb = MinFileSizeKB
    /\ verbose \in BOOLEAN
    /\ cancel_futures_ok = TRUE
    /\ pymediainfo_available = TRUE
    /\ ffmpeg_binary_available = TRUE
    /\ cancel_requested = FALSE
    /\ processing_thread = TRUE
    /\ executor = "None"
    /\ start_button = "disabled"
    /\ cancel_button = "normal"
    /\ browse_button = "disabled"
    /\ dialog = "none"
    /\ ui_pc = "idle"
    /\ message_queue = <<>>
    /\ update_timer = "None"
    /\ after_pending = 0
    /\ progress_text = <<>>
    /\ qm_pc = "idle"
    /\ pmq_pc = "idle"
    /\ queue_calls = 0
    /\ pool_shutdown = FALSE
    /\ work_queue = <<>>
    /\ fut = <<>>
    /\ pc = "scan"
    /\ media_files = <<>>
    /\ idx = 1
    /\ cur = 0
    /\ yielded = {}
    /\ locals = InitLocals
    /\ report = NoReport
    /\ folded = <<>>
    /\ calls = [i \in DOMAIN disk |-> 0]
    /\ returned = {}
    /\ after_cancel = NotCancelled
    /\ after_error = NotYet
    /\ after_stop = NotYet

ProgressNext == Scan \/ SeqNext \/ SeqBody

ProgressSpec == ProgressInit /\ [][ProgressNext]_vars

\* --------------------------------------------------- the batched log alone
\* queue_message on the processing thread, statement by statement: the
\* message is appended ...
queue_message_append ==
    /\ qm_pc = "idle"
    /\ queue_calls < MaxMessages
    /\ message_queue' = Append(message_queue, Message("error", queue_calls + 1))
    /\ queue_calls' = queue_calls + 1
    /\ qm_pc' = "appended"
    /\ UNCHANGED << env_vars, ui_vars, update_timer, after_pending, progress_text,
                    pmq_pc, pool_vars, proc_vars, hist_vars >>

\* ... and process_message_queue is scheduled unless update_timer is set.
queue_message_schedule ==
    /\ qm_pc = "appended"
    /\ IF update_timer = "None"
       THEN /\ update_timer' = "timer"
            /\ after_pending' = after_pending + 1
       ELSE UNCHANGED << update_timer, after_pending >>
    /\ qm_pc' = "idle"
    /\ UNCHANGED << env_vars, ui_vars, message_queue, progress_text, pmq_pc,
                    queue_calls, pool_vars, proc_vars, hist_vars >>

\* process_message_queue on the UI thread, statement by statement: a
\* scheduled callback runs and tests the queue, ...
process_message_queue_test ==
    /\ UIThreadFree
    /\ after_pending > 0
    /\ after_pending' = after_pending - 1
    /\ pmq_pc' = IF message_queue # <<>> THEN "insert" ELSE "reset"
    /\ UNCHANGED << env_vars, ui_vars, message_queue, update_timer, progress_text,
                    qm_pc, queue_calls, pool_vars, proc_vars, hist_vars >>

\* ... the messages in the queue are joined and inserted into the widget, ...
process_message_queue_insert ==
    /\ pmq_pc = "insert"
    /\ progress_text' = progress_text \o message_queue
    /\ pmq_pc' = "clear"
    /\ UNCHANGED << env_vars, ui_vars, message_queue, update_timer, after_pending,
                    qm_pc, queue_calls, pool_vars, proc_vars, hist_vars >>

\* ... the queue is cleared, ...
process_message_queue_clear ==
    /\ pmq_pc = "clear"
    /\ message_queue' = <<>>
    /\ pmq_pc' = "reset"
    /\ UNCHANGED << env_vars, ui_vars, update_timer, after_pending, progress_text,
                    qm_pc, queue_calls, pool_vars, proc_vars, hist_vars >>

\* ... and update_timer is reset.
process_message_queue_reset ==
    /\ pmq_pc = "reset"
    /\ update_timer' = "None"
    /\ pmq_pc' = "idle"
    /\ UNCHANGED << env_vars, ui_vars, message_queue, after_pending, progress_text,
                    qm_pc, queue_calls, pool_vars, proc_vars, hist_vars >>

\* A run in verbose mode is in its loop, and has queued nothing yet.
QueueInit ==
    /\ disk \in [1..MaxMessages -> {BadFile}]
    /\ tree = [i \in DOMAIN disk |-> EntryOf(disk[i])]
    /\ extensions_var = ExtensionsField
    /\ num_threads \in 1..MaxThreads
    /\ stop_on_error = FALSE
    /\ min_file_size_kb = MinFileSizeKB
    /\ verbose = TRUE
    /\ cancel_futures_ok = TRUE
    /\ pymediainfo_available = TRUE
    /\ ffmpeg_binary_available = TRUE
    /\ cancel_requested = FALSE
    /\ processing_thread = TRUE
    /\ executor = "None"
    /\ start_button = "disabled"
    /\ cancel_button = "normal"
    /\ browse_button = "disabled"
    /\ dialog = "none"
    /\ ui_pc = "idle"
    /\ message_queue = <<>>
    /\ update_timer = "None"
    /\ after_pending = 0
    /\ progress_text = <<>>
    /\ qm_pc = "idle"
    /\ pmq_pc = "idle"
    /\ queue_calls = 0
    /\ pool_shutdown = FALSE
    /\ work_queue = <<>>
    /\ fut = <<>>
    /\ pc = "loop"
    /\ media_files = [i \in DOMAIN disk |-> i]
    /\ idx = 1
    /\ cur = 0
    /\ yielded = {}
    /\ locals = InitLocals
    /\ report = NoReport
    /\ folded = <<>>
    /\ calls = [i \in DOMAIN disk |-> 0]
    /\ returned = {}
    /\ after_cancel = NotCancelled
    /\ after_error = NotYet
    /\ after_stop = NotYet

QueueNext ==
    \/ queue_message_append
    \/ queue_message_schedule
    \/ process_message_queue_test
    \/ process_message_queue_insert
    \/ process_message_queue_clear
    \/ process_message_queue_reset

QueueSpec == QueueInit /\ [][QueueNext]_vars

\* ================================================================= claims
M == Len(media_files)

Range(s) == {s[i] : i \in DOMAIN s}

\* The run is over: process_folder has left its finally block.
RunEnded == pc = "done"

\* The run is over and reached its summary (the scan and the submission
\* raised nothing).
Summarized == pc = "done" /\ report.written

\* The paths of the FileResults folded so far.
FoldedPaths == {folded[k].file_path : k \in DOMAIN folded}

RECURSIVE GoodDuration(_)
GoodDuration(rs) ==
    IF rs = <<>> THEN 0
    ELSE (IF ~Head(rs).skipped /\ Head(rs).error = "None" THEN Head(rs).duration ELSE 0)
         + GoodDuration(Tail(rs))

\* C1: at every moment of every run the accumulated current_duration is the
\* sum of the durations of the folded FileResults that are neither skipped
\* nor failed, and the report's total_duration_seconds is that sum.
C1_TotalDurationIsSumOfGoodResults ==
    /\ locals.current_duration = GoodDuration(folded)
    /\ report.written => report.total_duration_seconds = GoodDuration(folded)

\* A finished run that folded a skipped, a failed and a good result.
C1_Witness ==
    /\ Summarized
    /\ \E a, b, c \in DOMAIN folded :
          /\ folded[a].skipped
          /\ folded[b].error # "None"
          /\ ~folded[c].skipped /\ folded[c].error = "None" /\ folded[c].duration > 0
    /\ report.total_duration_seconds > 0

\* C2: for one worker and for several, every file is folded at most once:
\* the folded results are of pairwise different files, completed_files
\* counts them, and processed_size, current_duration and skipped_files hold
\* each folded file's contribution once.
C2_EachFileFoldedAtMostOnce ==
    /\ Cardinality(FoldedPaths) = Len(folded)
    /\ locals.completed_files = Len(folded)
    /\ locals.completed_files <= Len(disk)
    /\ locals.processed_size =
          SumOver(FoldedPaths, [q \in FoldedPaths |->
              IF ResultOf(q).skipped THEN 0 ELSE ResultOf(q).size])
    /\ locals.current_duration =
          SumOver(FoldedPaths, [q \in FoldedPaths |->
              IF ResultOf(q).skipped THEN 0 ELSE ResultOf(q).duration])
    /\ locals.skipped_files = Cardinality({q \in FoldedPaths : ResultOf(q).skipped})

\* Several workers, all three files folded, the last file of the list first.
C2_Witness ==
    /\ num_threads > 1
    /\ Len(folded) = MaxFiles
    /\ folded[1].file_path = MaxFiles
    /\ locals.processed_size > 0

\* C3: with stop_on_error off and no cancellation requested, a run that
\* reached its summary has folded one result per discovered file, and
\* failed_files lists every file whose extraction failed.
C3_FailureDoesNotStopTheRun ==
    (Summarized /\ ~stop_on_error /\ ~cancel_requested) =>
        /\ locals.completed_files = Len(disk)
        /\ FoldedPaths = DOMAIN disk
        /\ \A q \in DOMAIN disk :
              ResultOf(q).error # "None" => q \in Range(locals.failed_files)

\* Such a run in which a failed result was folded before another result.
C3_Witness ==
    /\ Summarized /\ ~stop_on_error /\ ~cancel_requested
    /\ \E k \in DOMAIN folded : folded[k].error # "None" /\ k < Len(folded)
    /\ Len(locals.failed_files) > 0

\* The totals of the work list, file by file, in no order.
NotSkipped == {q \in DOMAIN disk : ~ResultOf(q).skipped}
ExpectedDuration == SumOver(NotSkipped, [q \in NotSkipped |-> ResultOf(q).duration])
ExpectedSize     == SumOver(NotSkipped, [q \in NotSkipped |-> ResultOf(q).size])
ExpectedSkipped  == Cardinality(DOMAIN disk \ NotSkipped)
ExpectedFailed   == {q \in NotSkipped : ResultOf(q).error # "None"}
SameHash(q)      == {o \in NotSkipped : ResultOf(o).hash = ResultOf(q).hash}
ExpectedGroups   ==
    {SameHash(q) : q \in {o \in NotSkipped :
        ResultOf(o).hash # "None" /\ Cardinality(SameHash(o)) > 1}}

\* C4: with several workers, stop_on_error off and no cancellation, the
\* final totals are those of the work list whatever the order in which the
\* workers finished: duration, processed size, skipped count, the set of
\* failed files and the duplicate groups as sets.
C4_TotalsIndependentOfCompletionOrder ==
    (Summarized /\ num_threads > 1 /\ ~stop_on_error /\ ~cancel_requested) =>
        /\ locals.current_duration = ExpectedDuration
        /\ locals.processed_size = ExpectedSize
        /\ locals.skipped_files = ExpectedSkipped
        /\ Range(locals.failed_files) = ExpectedFailed
        /\ {Range(g) : g \in report.duplicate_groups} = ExpectedGroups

\* Such a run with a duplicate group, whose second file was folded first.
C4_Witness ==
    /\ Summarized /\ num_threads > 1 /\ ~stop_on_error /\ ~cancel_requested
    /\ Len(folded) = MaxFiles
    /\ folded[1].file_path # 1
    /\ \E g \in report.duplicate_groups : g[1] > g[2]

\* What the sequential loop computes on the work list from position k on.
RECURSIVE SeqRun(_, _)
SeqRun(l, k) ==
    IF k > Len(disk) THEN l
    ELSE SeqRun(SeqLoopBody(l, ResultOf(k), FALSE).locals, k + 1)

SeqFinal == SeqRun([InitLocals EXCEPT !.total_size = locals.total_size], 1)

\* C5: with stop_on_error off and no cancellation, the thread-pool path
\* ends with the summary the sequential loop computes on the same work
\* list: total duration, processed size, skipped count, completed count,
\* estimate, the files map, and (as sets) the failed files and the
\* duplicate groups.
C5_PoolPathEqualsSequentialPath ==
    (Summarized /\ num_threads > 1 /\ ~stop_on_error /\ ~cancel_requested) =>
        /\ locals.current_duration = SeqFinal.current_duration
        /\ locals.processed_size = SeqFinal.processed_size
        /\ locals.skipped_files = SeqFinal.skipped_files
        /\ locals.completed_files = SeqFinal.completed_files
        /\ locals.failed_size = SeqFinal.failed_size
        /\ locals.estimated_total = SeqFinal.estimated_total
        /\ locals.results = SeqFinal.results
        /\ report.files = SeqFinal.results
        /\ Range(locals.failed_files) = Range(SeqFinal.failed_files)
        /\ {Range(g) : g \in report.duplicate_groups}
             = {Range(g) : g \in DuplicateGroups(SeqFinal.file_hashes)}

\* Such a pool run over a skipped, a failed and a good file, folded in an
\* order that is not the list's.
C5_Witness ==
    /\ Summarized /\ num_threads > 1 /\ ~stop_on_error /\ ~cancel_requested
    /\ locals.skipped_files > 0
    /\ Len(locals.failed_files) > 0
    /\ locals.current_duration > 0
    /\ \E k \in DOMAIN folded : folded[k].file_path # k

\* C6: if cancellation is requested after K of M files have been folded, the
\* final summary reports at most K + N processed files, and reports all M
\* only if K >= M - N.
C6_CancelledSummaryReflectsAtMostKPlusN ==
    (Summarized /\ after_cancel.seen) =>
        /\ report.processed_files <= after_cancel.completed + num_threads
        /\ report.processed_files = M => after_cancel.completed >= M - num_threads

\* What holds of the results folded (not of the summary's processed_files):
\* after the request at most one more result is folded.
C6_FoldedAfterCancel ==
    after_cancel.seen => locals.completed_files <= after_cancel.completed + 1

\* C7: after cancel_processing has set the flag, at most N files finish in
\* the workers, and no worker starts a file.
C7_NoFileStartsAfterCancelRequest ==
    after_cancel.seen =>
        /\ after_cancel.returned <= num_threads
        /\ after_cancel.started = 0

\* C8: with stop_on_error on and one worker, a folded result with an error
\* is the last one folded: the loop is left, process_single_file has been
\* invoked on no later file of the work list, and failed_files holds that
\* file alone.
C8_SequentialStopOnErrorHalts ==
    (num_threads = 1 /\ stop_on_error) =>
        \A k \in DOMAIN folded :
            folded[k].error # "None" =>
                /\ k = Len(folded)
                /\ pc \in {"summary", "dialog", "done"}
                /\ locals.failed_files = << folded[k].relative_path >>
                /\ \A q \in DOMAIN disk : q > folded[k].file_path => calls[q] = 0
                /\ \A q \in DOMAIN disk : calls[q] <= 1

\* A finished run halted by its second file, with a file left unprocessed.
C8_Witness ==
    /\ RunEnded /\ num_threads = 1 /\ stop_on_error /\ ~cancel_requested
    /\ Len(folded) = 2
    /\ folded[2].error # "None"
    /\ Len(disk) = 3
    /\ calls[3] = 0

\* C9 as stated: with stop_on_error on and several workers, once the first
\* failing file has finished in its worker at most N - 1 further files
\* finish in the workers.
C9_AtMostNMinusOneAfterFirstFailure ==
    (stop_on_error /\ num_threads > 1 /\ after_error.seen) =>
        after_error.returned <= num_threads - 1

\* C9: with stop_on_error on and several workers, once the aggregating
\* thread has folded the failing result and shut the pool down, no worker
\* starts a file and at most N files, those in flight at that moment,
\* finish.
C9_AtMostNAfterPoolStopped ==
    (stop_on_error /\ num_threads > 1 /\ after_stop.seen) =>
        /\ after_stop.returned <= num_threads
        /\ after_stop.started = 0
        /\ after_stop.returned + Cardinality(InFlight) <= num_threads

\* A run stopped on an error after which N files finished in the workers.
C9_Witness ==
    /\ RunEnded /\ stop_on_error /\ num_threads > 1
    /\ after_stop.seen
    /\ after_stop.returned = num_threads
    /\ Len(folded) < Len(disk)

\* The completion state the closing messagebox surfaces.
Surfaced ==
    CASE dialog = "Processing Complete"  -> "Completed"
      [] dialog = "Processing Cancelled" -> "Cancelled"
      [] dialog = "An error occurred"    -> "ScanFailed"
      [] OTHER                           -> "none"

\* The dispatch loop was left by the break under stop_on_error.
StoppedByError == stop_on_error /\ locals.failed_files # <<>>

\* C10: a run ends in one of Completed, Cancelled, StoppedOnError and
\* ScanFailed, and the state surfaced is what happened: StoppedOnError for a
\* run stopped by stop_on_error, Cancelled only for a run that stopped
\* before every file was processed, Completed only for a run that
\* processed every file.
C10_SurfacedStateMatchesTheRun ==
    (RunEnded /\ dialog # "Error") =>
        /\ Surfaced \in {"Completed", "Cancelled", "StoppedOnError", "ScanFailed"}
        /\ StoppedByError => Surfaced = "StoppedOnError"
        /\ Surfaced = "Cancelled" => locals.completed_files < M
        /\ Surfaced = "Completed" => locals.completed_files = M

\* Every future of the pool has produced its result or was cancelled before
\* it started.
AllSettled ==
    \A i \in DOMAIN fut : fut[i] \in {"FINISHED", "CANCELLED", "CANCELLED_AND_NOTIFIED"}

\* C11: given that every call of process_single_file returns, once the work
\* list has been submitted to the pool every item eventually has produced
\* its FileResult or was cancelled before it started, and the run
\* eventually reaches its final summary.
C11_SubmittedItemsSettleAndRunIsSummarized ==
    (pc = "pool_loop") ~> (report.written /\ AllSettled)

\* The estimate (a rational, numerator and denominator) is the linear
\* extrapolation of the totals in l.
EstimateExact(l) ==
    l.estimated_total[1] * l.processed_size
        = l.current_duration * l.total_size * l.estimated_total[2]

\* C12: whenever processed_size > 0, after every fold and at the end of the
\* run, cancelled and stopped-on-error runs included,
\* estimated_total * processed_size = current_duration * total_size.
C12_EstimateIsLinearExtrapolation ==
    locals.processed_size > 0 => EstimateExact(locals)

\* What holds: the equality, as long as the loop was not left by the break
\* under stop_on_error.
C12_EstimateExactUnlessStopped ==
    (locals.processed_size > 0 /\ ~StoppedByError) => EstimateExact(locals)

\* C13: a run that was cancelled, or that ended with a failed file, and has
\* processed_size > 0, shows an extrapolated total duration in its final
\* report.
C13_ExtrapolationShownAfterCancelOrFailure ==
    (Summarized /\ locals.processed_size > 0
                /\ (cancel_requested \/ locals.failed_files # <<>>)) =>
        (report.estimate_logged \/ report.extrapolated_logged)

\* The folded results that are not skipped.
FoldedNotSkipped == {q \in FoldedPaths : ~ResultOf(q).skipped}

\* C14: a file whose size (as stat reports it) is below the minimum size
\* yields a skipped FileResult, and in every run a skipped file is in
\* neither failed_files, the hash-to-paths map nor a duplicate group, and
\* contributes nothing to processed_size and current_duration.
C14_SkippedFilesStayOutOfTheTotals ==
    /\ \A q \in DOMAIN disk :
          (disk[q].stat_ok /\ disk[q].size < min_size_bytes) => ResultOf(q).skipped
    /\ \A k \in DOMAIN folded :
          folded[k].skipped =>
              /\ folded[k].relative_path \notin Range(locals.failed_files)
              /\ \A h \in DOMAIN locals.file_hashes :
                    folded[k].relative_path \notin Range(locals.file_hashes[h])
              /\ report.written =>
                    \A g \in report.duplicate_groups :
                        folded[k].relative_path \notin Range(g)
    /\ locals.processed_size =
          SumOver(FoldedNotSkipped, [q \in FoldedNotSkipped |-> ResultOf(q).size])
    /\ locals.current_duration =
          SumOver(FoldedNotSkipped, [q \in FoldedNotSkipped |-> ResultOf(q).duration])

\* A finished run that folded a skipped file and has a failed file and a
\* duplicate group.
C14_Witness ==
    /\ Summarized
    /\ \E k \in DOMAIN folded : folded[k].skipped /\ folded[k].size > 0
    /\ locals.failed_files # <<>>
    /\ report.duplicate_groups # {}

\* The call of process_single_file on the one file of FileSpec.
TheRun ==
    process_single_file_run(1, disk[1], min_size_bytes,
                            pymediainfo_available, ffmpeg_binary_available)

\* The file's size, as stat reports it, is below the minimum size.
TooSmall == disk[1].stat_ok /\ disk[1].size < min_size_bytes

\* C15: process_single_file on a file with size < min_size_bytes returns at
\* once: it invokes neither calculate_file_hash nor a duration backend, and
\* its result is skipped with duration 0, no hash and no error.
C15_SmallFileReturnsAtOnce ==
    (pc = "returned" /\ TooSmall) =>
        /\ TheRun.invoked = << "stat" >>
        /\ folded[1] = TheRun.result
        /\ folded[1].skipped
        /\ folded[1].duration = 0
        /\ folded[1].hash = "None"
        /\ folded[1].error = "None"
        /\ folded[1].size = disk[1].size

\* The call has returned for a readable file one byte below the minimum
\* size for which every backend would answer.
C15_Witness ==
    /\ pc = "returned" /\ TooSmall
    /\ disk[1].size = 1023 /\ disk[1].read_ok
    /\ pymediainfo_available /\ TryPymediainfo(disk[1]).ok
    /\ TryMoviepy(disk[1]).ok /\ TryFfprobe(disk[1]).ok
    /\ folded[1].skipped

\* C16: in every run, cancelled and stopped-on-error runs included, the
\* summary's processed_files is the number of non-skipped results folded,
\* and its skipped_files the number of skipped results folded.
C16_ProcessedFilesCountsFoldedResults ==
    Summarized =>
        /\ report.processed_files = Cardinality(FoldedNotSkipped)
        /\ report.skipped_files = Cardinality(FoldedPaths \ FoldedNotSkipped)

\* What holds: the two counts in runs that folded every file.
C16_CountsOfCompleteRuns ==
    (Summarized /\ Len(folded) = M) =>
        /\ report.processed_files = Cardinality(FoldedNotSkipped)
        /\ report.skipped_files = Cardinality(FoldedPaths \ FoldedNotSkipped)

\* The paths listed in the duplicate groups of the report.
GroupedPaths == UNION {Range(g) : g \in report.duplicate_groups}

\* C17: in every final report each duplicate group has at least two paths
\* (a hash with a single path gives no group), and total_duplicate_files is
\* the sum over the groups of (size - 1).
C17_GroupsHaveTwoPathsAndDuplicatesAreCounted ==
    report.written =>
        /\ \A g \in report.duplicate_groups : Len(g) >= 2
        /\ report.duplicate_groups =
              {locals.file_hashes[h] :
                  h \in {k \in DOMAIN locals.file_hashes :
                             Len(locals.file_hashes[k]) >= 2}}
        /\ report.duplicate_groups_count = Cardinality(report.duplicate_groups)
        /\ report.total_duplicate_files =
              Cardinality(GroupedPaths) - Cardinality(report.duplicate_groups)

\* A report with a group of two paths, from a run in which another hash
\* had a single path.
C17_Witness ==
    /\ report.written
    /\ \E g \in report.duplicate_groups : Len(g) = 2
    /\ \E h \in DOMAIN locals.file_hashes : Len(locals.file_hashes[h]) = 1
    /\ report.total_duplicate_files = 1

\* C18: in every final report a path is in at most one duplicate group and
\* at most once in it; the same holds of the hash-to-paths map the groups
\* are taken from.
C18_PathInAtMostOneGroupOnce ==
    /\ \A h \in DOMAIN locals.file_hashes :
          /\ Cardinality(Range(locals.file_hashes[h])) = Len(locals.file_hashes[h])
          /\ \A k \in DOMAIN locals.file_hashes \ {h} :
                Range(locals.file_hashes[h]) \cap Range(locals.file_hashes[k]) = {}
    /\ report.written =>
          \A g \in report.duplicate_groups :
              /\ Cardinality(Range(g)) = Len(g)
              /\ \A o \in report.duplicate_groups \ {g} : Range(g) \cap Range(o) = {}

\* A report of a pool run with a group of two paths beside a second hash.
C18_Witness ==
    /\ report.written /\ num_threads > 1
    /\ Cardinality(DOMAIN locals.file_hashes) = 2
    /\ \E g \in report.duplicate_groups : Len(g) = 2

\* Two paths are listed in one duplicate group of the report.
SameGroup(p, q) == \E g \in report.duplicate_groups : {p, q} \subseteq Range(g)

BackendOrder ==
    (IF pymediainfo_available THEN << "pymediainfo" >> ELSE <<>>)
    \o << "moviepy" >>
    \o (IF ffmpeg_binary_available THEN << "ffprobe" >> ELSE <<>>)

\* What a backend answers for the one file of FileSpec.
Attempt(backend) ==
    CASE backend = "pymediainfo" -> TryPymediainfo(disk[1])
      [] backend = "moviepy"     -> TryMoviepy(disk[1])
      [] backend = "ffprobe"     -> TryFfprobe(disk[1])

TheDuration == get_duration(disk[1], pymediainfo_available, ffmpeg_binary_available)

\* process_single_file reached get_duration.
DurationWanted == pc = "returned" /\ disk[1].stat_ok /\ ~TooSmall

AllBackends == << "pymediainfo", "moviepy", "ffprobe" >>

Available(backend) ==
    CASE backend = "pymediainfo" -> pymediainfo_available
      [] backend = "moviepy"     -> TRUE
      [] backend = "ffprobe"     -> ffmpeg_binary_available

\* The entry of a failed backend and the notice of an unavailable one.
FailedEntry(backend) == backend \o " failed"
Notice(backend)      == "(" \o backend \o " not available)"

RECURSIVE EntriesOf(_, _)
EntriesOf(backends, available) ==
    IF backends = <<>> THEN <<>>
    ELSE (IF Available(Head(backends)) = available
          THEN << IF available THEN FailedEntry(Head(backends))
                  ELSE Notice(Head(backends)) >>
          ELSE <<>>)
         \o EntriesOf(Tail(backends), available)

\* C21: get_duration returns a failure if and only if every available
\* backend failed; the failure carries one entry per failed backend in the
\* order pymediainfo, moviepy, ffprobe, followed by one notice per
\* unavailable backend, and process_single_file reports it as the error.
C21_FailureIffAllAvailableBackendsFailed ==
    DurationWanted =>
        LET d == TheDuration
        IN  /\ ~d.ok <=> \A k \in DOMAIN BackendOrder : ~Attempt(BackendOrder[k]).ok
            /\ ~d.ok => d.error_parts = EntriesOf(AllBackends, TRUE)
                                            \o EntriesOf(AllBackends, FALSE)
            /\ d.ok => d.error_parts = <<>>
            /\ (folded[1].error # "None") <=> ~d.ok

\* Every available backend failed while pymediainfo is unavailable (and
\* would have answered): two entries, then one notice.
C21_Witness ==
    /\ DurationWanted
    /\ ~pymediainfo_available /\ ffmpeg_binary_available
    /\ TryPymediainfo(disk[1]).ok
    /\ TheDuration.error_parts =
          << "moviepy failed", "ffprobe failed", "(pymediainfo not available)" >>
    /\ folded[1].error # "None"

\* The file with another answer of pymediainfo, and of ffprobe.
WithPmi(f, a) == [f EXCEPT !.pmi = a]
WithFfp(f, a) == [f EXCEPT !.ffp = a]

\* A backend is unavailable: pymediainfo is not installed, the ffprobe
\* binary cannot be located or is not found where it was located.
Unavailable(backend) ==
    CASE backend = "pymediainfo" -> ~pymediainfo_available
      [] backend = "moviepy"     -> FALSE
      [] backend = "ffprobe"     -> ~ffmpeg_binary_available \/ ~disk[1].ffp.found

\* C22: an unavailable backend (optional dependency not installed, or
\* probing binary not found) is never attempted by get_duration and never
\* recorded as a failed backend; it contributes only its notice to an
\* aggregate failure.
C22_UnavailableBackendIsNeverAttempted ==
    DurationWanted =>
        LET d == TheDuration
        IN  \A k \in DOMAIN AllBackends :
                Unavailable(AllBackends[k]) =>
                    /\ AllBackends[k] \notin Range(d.tried)
                    /\ FailedEntry(AllBackends[k]) \notin Range(d.error_parts)
                    /\ ~d.ok => Notice(AllBackends[k]) \in Range(d.error_parts)

\* What holds: a backend whose availability flag is off is never attempted
\* and never recorded as failed: whatever it would have answered, the
\* result is the same, and its notice is in the failure and only there.
C22_FlaggedUnavailableIsNeverAttempted ==
    DurationWanted =>
        LET d == TheDuration
        IN  /\ \A k \in DOMAIN AllBackends :
                  ~Available(AllBackends[k]) =>
                      /\ AllBackends[k] \notin Range(d.tried)
                      /\ AllBackends[k] \notin Range(TheRun.invoked)
                      /\ FailedEntry(AllBackends[k]) \notin Range(d.error_parts)
                      /\ (Notice(AllBackends[k]) \in Range(d.error_parts)) <=> ~d.ok
            /\ ~pymediainfo_available =>
                  \A a \in PmiAnswers :
                      get_duration(WithPmi(disk[1], a), pymediainfo_available,
                                   ffmpeg_binary_available) = d
            /\ ~ffmpeg_binary_available =>
                  \A a \in FfpAnswers :
                      get_duration(WithFfp(disk[1], a), pymediainfo_available,
                                   ffmpeg_binary_available) = d
            /\ \A k \in DOMAIN AllBackends :
                  Available(AllBackends[k]) =>
                      Notice(AllBackends[k]) \notin Range(d.error_parts)

\* A backend reports a duration of zero for the one file of FileSpec.
ReportsZero(backend) ==
    CASE backend = "pymediainfo" ->
            ~disk[1].pmi.raises /\ disk[1].pmi.has_dur /\ disk[1].pmi.ms = 0
      [] backend = "moviepy" ->
            ~disk[1].mvp.raises /\ disk[1].mvp.dur = 0
      [] backend = "ffprobe" ->
            /\ disk[1].ffp.found /\ disk[1].ffp.rc = 0
            /\ disk[1].ffp.has_dur /\ disk[1].ffp.dur = 0

\* get_duration returned 0 from the k-th backend it attempted, and the file
\* is not failed.
ZeroIsSuccess(k) ==
    /\ k = Len(TheDuration.tried)
    /\ TheDuration.ok /\ TheDuration.val = 0
    /\ folded[1].duration = 0
    /\ folded[1].error = "None"
    /\ ~folded[1].skipped

\* C23: for every backend of the chain, a reported duration of zero is a
\* success: get_duration returns 0 from that backend, no later backend is
\* attempted, and the file's result carries no error.
C23_ZeroDurationIsSuccess ==
    DurationWanted =>
        \A k \in DOMAIN TheDuration.tried :
            ReportsZero(TheDuration.tried[k]) => ZeroIsSuccess(k)

\* What holds: a duration of zero from moviepy or ffprobe, and one of less
\* than a second from pymediainfo, is a success.
C23_ZeroFromMoviepyOrFfprobeIsSuccess ==
    DurationWanted =>
        \A k \in DOMAIN TheDuration.tried :
            \/ ( /\ TheDuration.tried[k] # "pymediainfo"
                 /\ ReportsZero(TheDuration.tried[k]) )
            \/ ( /\ TheDuration.tried[k] = "pymediainfo"
                 /\ ~disk[1].pmi.raises /\ disk[1].pmi.has_dur
                 /\ disk[1].pmi.ms > 0 /\ disk[1].pmi.ms < 1000 )
            => ZeroIsSuccess(k)

\* What the call of process_single_file on the file at `path` invokes.
InvokedOn(path) ==
    process_single_file_run(path, disk[path], min_size_bytes,
                            pymediainfo_available, ffmpeg_binary_available).invoked

\* C24: nothing is retried: within the run process_single_file is invoked
\* at most once per discovered file, and one call attempts each backend (and
\* stat and the hash) at most once, whether the attempt succeeded or failed.
C24_NothingIsRetried ==
    /\ \A q \in DOMAIN disk : calls[q] <= 1
    /\ returned \subseteq {q \in DOMAIN disk : calls[q] = 1}
    /\ \A q \in DOMAIN disk :
          Cardinality(Range(InvokedOn(q))) = Len(InvokedOn(q))

\* A finished pool run without stop_on_error over three files, one of which
\* failed in every backend: each file was processed exactly once.
C24_Witness ==
    /\ Summarized /\ num_threads > 1 /\ ~stop_on_error /\ ~cancel_requested
    /\ Len(disk) = MaxFiles
    /\ \A q \in DOMAIN disk : calls[q] = 1
    /\ \E q \in DOMAIN disk :
          /\ ResultOf(q).error # "None"
          /\ Len(InvokedOn(q)) = 5
    /\ Len(locals.failed_files) = 1

\* process_single_file reached calculate_file_hash, which raised.
HashFailed == DurationWanted /\ calculate_file_hash(disk[1]) = "raise"

\* The result for the same file if its bytes could be read.
ResultIfReadable ==
    process_single_file(1, [disk[1] EXCEPT !.read_ok = TRUE], min_size_bytes,
                        pymediainfo_available, ffmpeg_binary_available)

\* C25: if hashing a non-skipped file fails, process_single_file still runs
\* the duration extraction and returns a result without hash whose duration
\* and error are those of the backend chain alone: the result of the same
\* file with a readable content, but for the hash.
C25_HashFailureDoesNotAbortExtraction ==
    HashFailed =>
        /\ TheRun.invoked = << "stat", "calculate_file_hash" >> \o TheDuration.tried
        /\ Len(TheDuration.tried) >= 1
        /\ folded[1].hash = "None"
        /\ ~folded[1].skipped
        /\ folded[1].size = disk[1].size
        /\ folded[1].duration = (IF TheDuration.ok THEN TheDuration.val ELSE 0)
        /\ (folded[1].error = "None") <=> TheDuration.ok
        /\ folded[1] = [ResultIfReadable EXCEPT !.hash = "None"]
        /\ ResultIfReadable.hash # "None"

\* Hashing fails, pymediainfo and moviepy fail, ffprobe answers 125 s: the
\* result has the duration, no hash and no error.
C25_Witness ==
    /\ HashFailed
    /\ pymediainfo_available /\ ffmpeg_binary_available
    /\ TheDuration.tried = << "pymediainfo", "moviepy", "ffprobe" >>
    /\ folded[1].duration = 125
    /\ folded[1].hash = "None"
    /\ folded[1].error = "None"

\* The fields of a FileResult.
FileResultFields ==
    {"file_path", "relative_path", "duration", "size", "hash", "error", "skipped"}

\* Something failed while the one file of FileSpec was processed: stat, the
\* hash, or every available backend.
StatFailed       == ~disk[1].stat_ok
ExtractionFailed == DurationWanted /\ ~TheDuration.ok

\* C26: process_single_file never raises: for every file and every
\* combination of stat, hashing and backend failures the call returns a
\* FileResult; an exception not handled further in (stat raising) gives a
\* result with error set, duration 0 and skipped false, and so does a
\* failure of every backend.
C26_ProcessSingleFileAlwaysReturnsAResult ==
    pc = "returned" =>
        /\ returned = {1} /\ calls[1] = 1
        /\ DOMAIN folded[1] = FileResultFields
        /\ folded[1].file_path = 1 /\ folded[1].relative_path = 1
        /\ folded[1].duration \in Nat /\ folded[1].size \in Nat
        /\ folded[1].skipped \in BOOLEAN
        /\ StatFailed =>
              /\ folded[1].error = "Failed to process file"
              /\ folded[1].duration = 0 /\ folded[1].size = 0
              /\ folded[1].hash = "None" /\ ~folded[1].skipped
        /\ ExtractionFailed =>
              /\ folded[1].error = "Error processing"
              /\ folded[1].duration = 0 /\ ~folded[1].skipped
        /\ (folded[1].error # "None") <=> (StatFailed \/ ExtractionFailed)
        /\ folded[1].skipped => (folded[1].error = "None" /\ folded[1].duration = 0)

\* The call returned for a file on which stat raises (and which could be
\* neither read nor probed).
C26_Witness ==
    /\ pc = "returned"
    /\ StatFailed /\ ~disk[1].read_ok
    /\ ~TryPymediainfo(disk[1]).ok /\ ~TryMoviepy(disk[1]).ok /\ ~TryFfprobe(disk[1]).ok
    /\ folded[1].error = "Failed to process file"
    /\ ~folded[1].skipped

\* start_processing has rejected the folder: its messagebox is shown.
RejectedStart == dialog' = "Error" /\ dialog # "Error"

\* C27: if the root path is empty, does not exist or is not a directory,
\* start_processing aborts before any work starts: no processing thread is
\* started, no file is scanned or processed, and the cancel flag and the
\* states of the start, cancel and browse buttons are left as they were.
C27_InvalidRootAbortsBeforeAnyWork ==
    [][RejectedStart =>
          /\ ~processing_thread'
          /\ pc' = pc /\ pc' # "scan"
          /\ UNCHANGED << cancel_requested, processing_thread, executor,
                          start_button, cancel_button, browse_button, ui_pc >>
          /\ UNCHANGED << media_files, idx, cur, yielded, locals, report >>
          /\ UNCHANGED << env_vars, msg_vars, pool_vars, hist_vars >>]_vars

\* A start with an invalid folder was rejected after a cancelled run: the
\* cancel flag is still set and the buttons are in their idle states.
C27_Witness ==
    /\ dialog = "Error"
    /\ pc = "done"
    /\ cancel_requested
    /\ ~processing_thread
    /\ start_button = "normal" /\ cancel_button = "disabled" /\ browse_button = "normal"

\* The positions of the entries that pass the scan's test.
Matched == Range(Matching(tree, extensions_var))

\* The scan is over, and it left process_folder by the handler.
ScanOver   == pc \notin {"idle", "scan"}
ScanFailed == pc \in {"except", "done"} /\ ~report.written /\ executor = "None"

\* C28: a stat error on a matched file during the scan does not fail the
\* scan: the file is left out of the work list and of total_size, and the
\* run goes on over the other files.
C28_ScanSurvivesStatError ==
    ScanOver =>
        LET statable == {i \in Matched : disk[i].stat_ok}
        IN  /\ ~ScanFailed
            /\ Range(media_files) = statable
            /\ locals.total_size =
                  SumOver(statable, [i \in statable |-> disk[i].size])

\* The name of an entry is hidden; its extension, lower-cased and without
\* the dot.
Hidden(name)      == name # <<>> /\ Head(name) = "."
ExtensionOf(name) == LStripDots(Lower(Suffix(name)))

\* The scan has built the work list.
Scanned == pc \in {"seq_loop", "pool_enter"}

\* C29: the work list is exactly the set of the regular files whose name
\* does not start with "." and whose extension, lower-cased and without the
\* dot, is in the configured set: no directory, no other entry that is not
\* a regular file, no hidden name, and every matching regular file, once.
C29_WorkListIsTheMatchingRegularFiles ==
    Scanned =>
        /\ Range(media_files) =
              {i \in DOMAIN tree :
                  /\ tree[i].kind = "file"
                  /\ ~Hidden(tree[i].name)
                  /\ ExtensionOf(tree[i].name) \in get_media_extensions(extensions_var)}
        /\ Cardinality(Range(media_files)) = Len(media_files)

\* What holds: the work list is the set of the entries of any kind that
\* stat() accepts, whose name is not hidden and whose extension is in the set.
C29_WorkListIsTheMatchingEntries ==
    Scanned =>
        /\ Range(media_files) =
              {i \in DOMAIN tree :
                  /\ ~Hidden(tree[i].name)
                  /\ ExtensionOf(tree[i].name) \in get_media_extensions(extensions_var)}
        /\ \A i \in Range(media_files) : tree[i].kind \in {"file", "directory"}
        /\ Cardinality(Range(media_files)) = Len(media_files)

\* The folded results that are not skipped and carry an error, in the order
\* in which they were folded, and their relative paths.
HasError(r) == ~r.skipped /\ r.error # "None"

FoldedWithError == SelectSeq(folded, HasError)

FailedPaths == [k \in DOMAIN FoldedWithError |-> FoldedWithError[k].relative_path]

\* C30: failed_files holds exactly the relative paths of the folded,
\* non-skipped results whose error is present, each once (in the order of
\* folding), at every moment and in every final report, and
\* failed_files_count is its length.
C30_FailedFilesAreTheFoldedErrors ==
    /\ locals.failed_files = FailedPaths
    /\ Cardinality(Range(locals.failed_files)) = Len(locals.failed_files)
    /\ report.written =>
          /\ report.failed_files = FailedPaths
          /\ report.failed_files_count = Len(report.failed_files)
          /\ \A k \in DOMAIN folded :
                folded[k].skipped => folded[k].relative_path \notin Range(report.failed_files)

\* The report of a pool run stopped by stop_on_error on its third result,
\* after a skipped and a good one: the failing file is its one failed file.
C30_Witness ==
    /\ Summarized /\ stop_on_error /\ num_threads > 1
    /\ Len(folded) = 3
    /\ \E k \in DOMAIN folded : folded[k].skipped
    /\ folded[3].error # "None"
    /\ report.failed_files = << folded[3].relative_path >>
    /\ report.failed_files_count = 1

\* A step of the aggregating thread: process_folder moves on.
AggregatorStep == pc' # pc

\* A step of a pool worker: a future changes its state while neither
\* process_folder nor cancel_processing moves.
WorkerStep == pc' = pc /\ ui_pc' = ui_pc /\ fut' # fut

\* The running totals and the hash-to-paths map.
Totals(l) ==
    << l.processed_size, l.current_duration, l.completed_files, l.skipped_files,
       l.file_hashes >>

\* The totals once r is added to them, by the code's arithmetic.
TotalsPlus(l, r) ==
    << l.processed_size + (IF r.skipped THEN 0 ELSE r.size),
       l.current_duration + (IF r.skipped THEN 0 ELSE r.duration),
       l.completed_files + 1,
       l.skipped_files + (IF r.skipped THEN 1 ELSE 0) >>

\* C31: processed_size, current_duration, completed_files, skipped_files and
\* the hash-to-paths map change only in steps of the thread that runs
\* process_folder; a step of a pool worker leaves them as they are, and each
\* fold adds exactly its result to the totals it found, whatever the workers
\* did in between.
C31_TotalsAreWrittenByTheAggregatorOnly ==
    [][/\ Totals(locals') # Totals(locals) => AggregatorStep
       /\ WorkerStep => Totals(locals') = Totals(locals)
       /\ Len(folded') = Len(folded) + 1 =>
             /\ AggregatorStep
             /\ SubSeq(Totals(locals'), 1, 4)
                  = TotalsPlus(locals, folded'[Len(folded')])]_vars

\* A result has been folded while a worker is processing a file and another
\* worker's result waits to be folded.
C31_Witness ==
    /\ num_threads > 1
    /\ pc = "pool_loop"
    /\ Len(folded) >= 1
    /\ locals.processed_size > 0
    /\ Running # {}
    /\ \E i \in DOMAIN fut \ yielded : fut[i] = "FINISHED"

\* A step in which start_processing starts a run.
NewRun == pc \in {"idle", "done"} /\ pc' = "scan"

\* C32: with stop_on_error on, a folded result that carries an error is the
\* last result folded: from then on neither the totals, the files map nor
\* the hash-to-paths map change, whatever the workers complete afterwards,
\* and failed_files holds one entry.
C32_NothingIsFoldedAfterTheFirstError ==
    /\ [](stop_on_error =>
             /\ \A k \in DOMAIN folded : HasError(folded[k]) => k = Len(folded)
             /\ Len(locals.failed_files) <= 1)
    /\ [][(/\ stop_on_error
           /\ \E k \in DOMAIN folded : HasError(folded[k])
           /\ ~NewRun) =>
             /\ folded' = folded
             /\ locals' = locals]_vars

\* A run of two workers stopped by an error, after which a worker finished a
\* file whose result was never folded.
C32_Witness ==
    /\ RunEnded /\ stop_on_error /\ num_threads > 1
    /\ Len(folded) >= 2
    /\ HasError(folded[Len(folded)])
    /\ Len(locals.failed_files) = 1
    /\ after_stop.returned >= 1
    /\ \E q \in returned : q \notin FoldedPaths /\ ResultOf(q).error # "None"

\* The final summary is being assembled or has been assembled.
SummaryStarted == pc \in {"summary", "dialog"} \/ report.written

\* C33: the duplicate groups, the totals and the report are assembled only
\* once the dispatch loop is over and no worker is processing a file or has
\* a file left to take, in completed, cancelled and stopped-on-error runs.
C33_SummaryOnlyAfterTheWorkersAreDone ==
    SummaryStarted =>
        /\ Running = {}
        /\ InFlight = {}
        /\ work_queue = <<>>
        /\ pc \notin {"seq_loop", "seq_call", "pool_submit", "pool_loop", "pool_body",
                      "pool_join"}

\* The summary of a cancelled run of two workers in which a worker finished
\* a file after the loop was left.
C33_Witness ==
    /\ report.written /\ num_threads > 1 /\ cancel_requested
    /\ after_cancel.returned >= 1
    /\ \E q \in returned : q \notin FoldedPaths
    /\ Len(folded) >= 1

\* The available backends that answer with a duration for the one file of
\* FileSpec, by their position in the order of the attempts.
Answering == {k \in DOMAIN BackendOrder : Attempt(BackendOrder[k]).ok}

\* The duration the first of them answers.
BackendValue ==
    Attempt(BackendOrder[CHOOSE k \in Answering : \A j \in Answering : k <= j]).val

\* C34: a FileResult returned by process_single_file has either no error and
\* the duration a backend answered, or an error and duration 0, never both
\* and never neither; a skipped result has no error, no hash and duration 0.
C34_ExactlyOneExtractionOutcome ==
    pc = "returned" =>
        LET r == folded[1]
        IN  /\ r.skipped =>
                  /\ r.error = "None" /\ r.hash = "None" /\ r.duration = 0
                  /\ TooSmall
            /\ (~r.skipped /\ r.error = "None") =>
                  /\ DurationWanted
                  /\ Answering # {}
                  /\ r.duration = BackendValue
            /\ r.error # "None" =>
                  /\ r.duration = 0
                  /\ ~r.skipped
                  /\ StatFailed \/ (DurationWanted /\ Answering = {})
            /\ (DurationWanted /\ Answering # {}) => r.error = "None"
            /\ (DurationWanted /\ Answering = {}) => r.error # "None"

\* The call has returned with an error for a hashed file of the minimum
\* size for which no backend answers.
C34_Witness ==
    /\ pc = "returned" /\ DurationWanted
    /\ Answering = {}
    /\ pymediainfo_available /\ ffmpeg_binary_available
    /\ disk[1].size = 1024 /\ min_file_size_kb = MinFileSizeKB
    /\ folded[1].hash # "None"
    /\ folded[1].error # "None" /\ folded[1].duration = 0

\* The progress lines passed to queue_message so far.
ProgressEvents ==
    {m \in Range(message_queue) \cup Range(progress_text) : m.kind = "progress"}

\* C35: whenever the number of completed files has reached a multiple of 10
\* a progress event for that number has been emitted, whether the file that
\* made the count was skipped, failed or succeeded.
C35_ProgressAtEveryTenthCompletedFile ==
    \A n \in 1..locals.completed_files :
        (n % ProgressEvery = 0 /\ pc # "seq_call") =>
            Message("progress", n) \in ProgressEvents

\* What holds: the event is emitted when the file that made the count was
\* not skipped, did not stop the run, and the bytes processed so far are
\* not zero.
C35_ProgressUnlessTenthIsSkipped ==
    \A k \in DOMAIN folded :
        (/\ k % ProgressEvery = 0
         /\ ~folded[k].skipped
         /\ ~(stop_on_error /\ folded[k].error # "None")
         /\ locals.processed_size > 0) =>
            Message("progress", k) \in ProgressEvents

\* A run is active: process_folder is between its first statement and the
\* end of its finally block.
RunActive == pc \notin {"idle", "done"}

UIIdle ==
    /\ start_button = "normal"
    /\ browse_button = "normal"
    /\ cancel_button = "disabled"
    /\ ~processing_thread

\* C36: once a run has been started the UI eventually is idle again: start
\* and browse enabled, cancel disabled and processing_thread cleared,
\* whether the run completes, is cancelled, stops on an error or is left by
\* an exception.
C36_StartedRunReturnsToIdle ==
    (pc = "scan") ~> UIIdle

\* What holds: a run in which cancel is not pressed returns to idle.
C36_UncancelledRunReturnsToIdle ==
    (pc = "scan") ~> (UIIdle \/ cancel_requested)

\* The messages passed to queue_message so far.
Queued == {Message("error", k) : k \in 1..queue_calls}

\* How often a message is in the text widget.
Displays(m) == Cardinality({i \in DOMAIN progress_text : progress_text[i] = m})

\* Both threads are outside queue_message and process_message_queue.
LogAtRest == qm_pc = "idle" /\ pmq_pc = "idle"

\* C38: under any interleaving of the processing thread and the UI thread,
\* a message passed to queue_message is in the queue or in the text widget
\* (not dropped), is in the widget at most once (not duplicated), and does
\* not wait in the queue while no call of process_message_queue is scheduled.
C38_QueuedMessagesAreDisplayedOnce ==
    /\ \A m \in Queued : m \in Range(message_queue) \/ Displays(m) = 1
    /\ \A m \in Queued : Displays(m) <= 1
    /\ (LogAtRest /\ message_queue # <<>>) => after_pending > 0

\* What holds: no message is displayed twice, and at most one call of
\* process_message_queue is scheduled at a time.
C38_NoMessageIsDuplicated ==
    /\ \A m \in Queued : Displays(m) <= 1
    /\ after_pending <= 1

\* The run has written its summary, no file is left unprocessed and no file
\* failed.
CompletedWithoutFailure ==
    /\ Summarized
    /\ locals.completed_files = Len(media_files)
    /\ locals.failed_files = <<>>

\* The estimate (a rational, numerator and denominator) is the total of the
\* durations in l.
EstimateIsActual(l) ==
    l.estimated_total[1] = l.current_duration * l.estimated_total[2]

\* C39: when a run completes with every discovered file processed and no
\* file failed, the last computed estimated_total equals current_duration,
\* also when some of the discovered files were skipped for being below the
\* minimum size.
C39_EstimateOfCompleteRunIsActualDuration ==
    CompletedWithoutFailure => EstimateIsActual(locals)

\* What holds: the equality, when no discovered file was skipped.
C39_EstimateIsActualWhenNothingIsSkipped ==
    (CompletedWithoutFailure /\ locals.skipped_files = 0) =>
        EstimateIsActual(locals)

====
